---- MODULE Spec2Model ----
(***************************************************************************)
(* Client-side state synchronisation layer of the assistant toolkit:      *)
(* the settings store (settings-store.ts), the conversation store         *)
(* (conversation-store.ts) and the file store (file-store.ts), each a     *)
(* local cache in front of a remote table.  Every remote call is three    *)
(* steps: the client issues it (the async function suspends at its        *)
(* await), the remote service handles it (or fails), and the client       *)
(* resumes with the response.  Steps of different calls interleave.       *)
(***************************************************************************)
EXTENDS Integers, Sequences, FiniteSets, TLC

VARIABLES
    \* ---- settings store
    defaultPreferences,  \* the module-level defaultPreferences object (its category objects are mutable)
    preferences,         \* state.preferences: which category slots reference the default objects, and the own objects
    settingsIsLoading,   \* state.isLoading of the settings store
    lastSynced,          \* state.lastSynced (0: null)
    prefTable,           \* rows of the remote preferences table
    calls,               \* the settings calls in flight, one per slot
    hist,                \* per slot, the summary of the last settings call that settled there
    clock,               \* the value new Date() returns next
    ncalls,              \* number of calls started so far
    nextId,              \* the next _id the remote service assigns
    \* ---- conversation store
    conversations,       \* state.conversations
    currentConversation, \* state.currentConversation (NoConversation: null)
    convIsLoading,       \* state.isLoading of the conversation store
    convError,           \* state.error ("": null)
    convTable,           \* rows of the remote conversations table
    convCalls,           \* the conversation calls in flight, one per slot
    convHist,            \* per slot, the summary of the last conversation call that settled there
    convSent,            \* the update and delete requests the store has issued
    convDeleted,         \* ids of the conversations whose deleteConversation has succeeded
    \* ---- file store
    files,               \* state.files
    fileIsLoading,       \* state.isLoading of the file store
    fileTable,           \* rows of the remote files table
    fileCalls,           \* the file calls in flight, one per slot
    fileHist,            \* per slot, the summary of the last file call that settled there
    fileSent,            \* the update requests the store has issued
    fileDeleted,         \* ids of the files whose deleteFile has succeeded
    selectedCategory,    \* state.selectedCategory
    searchQuery,         \* state.searchQuery
    batch,               \* the handleFileUpload of the file manager page in progress
    \* ---- email store
    drafts,              \* state.drafts
    sentEmails,          \* state.sentEmails
    emailIsLoading,      \* state.isLoading of the email store
    emailCalls,          \* the sendEmail calls in flight, one per slot
    emailHist,           \* per slot, the summary of the last sendEmail call that settled there
    emailOut,            \* the options of the email.sendEmail requests the store has issued
    \* ---- auth store
    user,                \* state.user (NoUser: null)
    isAuthenticated,     \* state.isAuthenticated
    authIsLoading,       \* state.isLoading of the auth store
    authError,           \* state.error ("": null)
    authCalls,           \* the auth calls in flight, one per slot
    authHist             \* per slot, the summary of the last auth call that settled there

settingsVars == <<defaultPreferences, preferences, settingsIsLoading, lastSynced,
                  prefTable, calls, hist>>

convVars == <<conversations, currentConversation, convIsLoading, convError, convTable,
              convCalls, convHist, convSent, convDeleted>>

viewVars == <<selectedCategory, searchQuery>>

fileVars == <<files, fileIsLoading, fileTable, fileCalls, fileHist, fileSent, fileDeleted,
              viewVars, batch>>

emailVars == <<drafts, sentEmails, emailIsLoading, emailCalls, emailHist, emailOut>>

authVars == <<user, isAuthenticated, authIsLoading, authError, authCalls, authHist>>

appVars == <<emailVars, authVars>>

sharedVars == <<clock, ncalls, nextId>>

vars == <<settingsVars, convVars, fileVars, appVars, sharedVars>>

(***************************************************************************)
(* Bounds                                                                  *)
(***************************************************************************)
\* Calls one session issues on the conversation store.
MaxConvCalls == 3

\* Calls of the conversation store in a session where every operation of the
\* store, on every conversation, may overlap every other.
MaxBrowseCalls == 2

\* Calls one session issues on the email store.
MaxEmailCalls == 2

\* Drafts saved in one session.
MaxDrafts == 1

\* Calls one session issues on the auth store.
MaxAuthCalls == 3

\* Calls of a session that uses every store.
MaxIdleCalls == 2

\* Calls one session issues on the file store.
MaxFileCalls == 3

\* Calls one session issues on the settings store.
MaxSettingsCalls == 2

\* Rows the remote preferences table holds when the session starts.
MaxSeed == 2

Slots == {1, 2}

(***************************************************************************)
(* Values.  Every preference value is written as a string; UNDEF is       *)
(* JavaScript's undefined.                                                 *)
(***************************************************************************)
UNDEF == "undefined"

Categories == {"theme", "ai", "speech", "email", "files", "general"}

DefaultPreferences ==
    [theme   |-> [mode |-> "dark", accentColor |-> "#8b5cf6", fontSize |-> "medium",
                  compactMode |-> "false"],
     ai      |-> [defaultModel |-> "default", temperature |-> "0.7", maxTokens |-> "2000",
                  systemPrompt |-> "", streamingEnabled |-> "true",
                  autoSaveConversations |-> "true"],
     speech  |-> [defaultVoice |-> "alloy", speed |-> "1.0", pitch |-> "1.0",
                  volume |-> "0.8", autoPlay |-> "false"],
     email   |-> [defaultTemplate |-> "professional", signature |-> "",
                  autoSaveDrafts |-> "true", schedulingEnabled |-> "true",
                  confirmBeforeSending |-> "true"],
     files   |-> [defaultCategory |-> "documents", autoPreview |-> "true",
                  maxUploadSize |-> "10485760",
                  allowedFileTypes |-> "image/*,text/*,application/pdf,audio/*,video/*"],
     general |-> [notifications |-> "true", soundEffects |-> "true",
                  keyboardShortcuts |-> "true", autoUpdate |-> "true",
                  analytics |-> "false"]]

Fields(c) == DOMAIN DefaultPreferences[c]

(***************************************************************************)
(* Object references.  A preferences object is a top-level object whose   *)
(* category slots hold references: `shared` are the slots that reference  *)
(* the category objects of defaultPreferences themselves, `own` holds the *)
(* objects of the other slots, each created by a spread.                   *)
(***************************************************************************)
NoObjects == [c \in {} |-> UNDEF]

\* The object defaultPreferences itself, as state.preferences holds it initially.
RefDefaults == [shared |-> Categories, own |-> NoObjects]

Keys(p) == p.shared \cup DOMAIN p.own

Deref(p, dp) ==
    [c \in Keys(p) |-> IF c \in p.shared THEN dp[c] ELSE p.own[c]]

\* What a reader of state.preferences sees.
Prefs == Deref(preferences, defaultPreferences)

\* obj with obj[k] = v, k added when it is not a key of obj.
SetKey(obj, k, v) == [x \in DOMAIN obj \cup {k} |-> IF x = k THEN v ELSE obj[x]]

\* { ...obj, ...entries } for a list of <<key, value>> entries.
RECURSIVE SpreadEntries(_, _)
SpreadEntries(obj, entries) ==
    IF entries = <<>> THEN obj
    ELSE SpreadEntries(SetKey(obj, entries[1][1], entries[1][2]), Tail(entries))

(***************************************************************************)
(* Wire form of a preference value: JSON.stringify({value, updatedAt}).   *)
(* JSON.stringify drops a member whose value is undefined.                 *)
(***************************************************************************)
Stringify(v, t) == [kind |-> "json", hasValue |-> (v # UNDEF), value |-> v, updatedAt |-> t]

MissingValue == [kind |-> "missing", hasValue |-> FALSE, value |-> UNDEF, updatedAt |-> 0]

CorruptValue == [kind |-> "corrupt", hasValue |-> FALSE, value |-> UNDEF, updatedAt |-> 0]

\* JSON.parse(value).value
ParsedValue(w) == IF w.hasValue THEN w.value ELSE UNDEF

PrefRow(id, c, k, w, t) == [id |-> id, category |-> c, key |-> k, value |-> w, updated_at |-> t]

(***************************************************************************)
(* syncPreferences' loop over the returned items.  `preferences` there is *)
(* { ...defaultPreferences }, a shallow copy: preferences[category] is    *)
(* the category object of defaultPreferences, and the assignment writes   *)
(* into it.  The loop stops at the first item JSON.parse throws on.       *)
(***************************************************************************)
SyncItemApplies(dp, item) ==
    /\ item.category \in DOMAIN dp
    /\ item.value.kind # "missing"

\* A loop that reads the row and assigns nothing.
SyncAssign_Skip(dp, item) == dp

\* (preferences[category] as any)[key] = parsedValue.value
SyncAssign(dp, item) ==
    [dp EXCEPT ![item.category] = SetKey(@, item.key, ParsedValue(item.value))]

RECURSIVE SyncLoop(_, _)
SyncLoop(dp, items) ==
    IF items = <<>> THEN [dp |-> dp, threw |-> FALSE]
    ELSE IF ~SyncItemApplies(dp, items[1]) THEN SyncLoop(dp, Tail(items))
    ELSE IF items[1].value.kind = "corrupt" THEN [dp |-> dp, threw |-> TRUE]
    ELSE SyncLoop(SyncAssign(dp, items[1]), Tail(items))

\* The orders in which the remote service may return a set of rows
\* (getItems(TABLE_ID, {}) names no sort).
Orders(S) ==
    {f \in [1..Cardinality(S) -> S] : \A i, j \in 1..Cardinality(S) : i # j => f[i] # f[j]}

(***************************************************************************)
(* Calls in flight                                                         *)
(***************************************************************************)
NoRow == PrefRow(0, "", "", MissingValue, 0)

\* No import payload.
NoPayload ==
    [parses |-> FALSE, members |-> {}, preferences |-> <<>>, exportedAt |-> 0, version |-> ""]

Idle ==
    [op |-> "idle", pc |-> "idle", id |-> 0, ov |-> {}, snap |-> RefDefaults,
     cat |-> "", entries |-> <<>>, i |-> 0, row |-> NoRow, resp |-> <<>>,
     before |-> NoObjects, phase |-> "", data |-> NoPayload, k |-> 0, failed |-> FALSE]

NoHist ==
    [id |-> 0, op |-> "none", res |-> "none", ov |-> {}, cat |-> "", entries |-> <<>>,
     promise |-> "none"]

\* Every action of the settings store catches the failure of its remote calls
\* and logs it (console.error); none rethrows it, so the promise of a call
\* that reached the remote service resolves.
SettingsPromise(res) == "resolved"

Active == {s \in Slots : calls[s].op # "idle"}

\* The calls cs once the call rec has started in slot s: it and every call in
\* flight overlap.
StartIn(cs, s, rec) ==
    [t \in Slots |->
       IF t = s
         THEN [rec EXCEPT !.id = ncalls + 1,
                          !.ov = {cs[u].id : u \in {x \in Slots : cs[x].op # "idle"}}]
       ELSE IF cs[t].op # "idle" THEN [cs[t] EXCEPT !.ov = @ \cup {ncalls + 1}]
       ELSE cs[t]]

\* A call starts in the first free slot of cs.
FreeSlotIn(cs, s, max) ==
    /\ cs[s].op = "idle"
    /\ \A t \in Slots : t < s => cs[t].op # "idle"
    /\ ncalls < max

Begin(s, rec) ==
    /\ ncalls' = ncalls + 1
    /\ calls' = StartIn(calls, s, rec)

\* The call of slot s returns to its caller.
Settle(s, res) ==
    /\ calls' = [calls EXCEPT ![s] = Idle]
    /\ hist' = [hist EXCEPT ![s] = [id |-> calls[s].id, op |-> calls[s].op, res |-> res,
                                    ov |-> calls[s].ov, cat |-> calls[s].cat,
                                    entries |-> calls[s].entries,
                                    promise |-> SettingsPromise(res)]]

\* The row table.addItem is called with for entry i of the call.
AddRow(c, entry, t) == PrefRow(0, c, entry[1], Stringify(entry[2], t), t)

(***************************************************************************)
(* The remote table service (settings table)                               *)
(***************************************************************************)
\* table.addItem succeeds: the row is stored under a fresh _id.
RemoteAddItem(s) ==
    /\ calls[s].phase = "add"
    /\ calls[s].pc = "await"
    /\ prefTable' = prefTable \cup {[calls[s].row EXCEPT !.id = nextId]}
    /\ nextId' = nextId + 1
    /\ calls' = [calls EXCEPT ![s].pc = "ok"]
    /\ UNCHANGED <<defaultPreferences, preferences, settingsIsLoading, lastSynced, hist,
                   clock, ncalls, convVars, appVars, fileVars>>

\* The rows of S in the order of the index category_key_idx.
RECURSIVE IndexOrder(_)
IndexOrder(S) ==
    IF S = {} THEN <<>>
    ELSE LET r == CHOOSE x \in S : TRUE IN <<r>> \o IndexOrder(S \ {r})

\* What a getItems of the call of slot s may return: resetCategory queries
\* { category } through the index, syncPreferences passes {} and names no sort.
QueryResults(s) ==
    IF calls[s].op = "resetCategory"
      THEN {IndexOrder({r \in prefTable : r.category = calls[s].cat})}
      ELSE Orders(prefTable)

\* table.getItems succeeds.
RemoteGetItems(s) ==
    /\ calls[s].phase = "get"
    /\ calls[s].pc = "await"
    /\ \E items \in QueryResults(s) :
          calls' = [calls EXCEPT ![s].pc = "ok", ![s].resp = items]
    /\ UNCHANGED <<defaultPreferences, preferences, settingsIsLoading, lastSynced, prefTable,
                   hist, clock, ncalls, nextId, convVars, appVars, fileVars>>

\* table.deleteItem succeeds: the row is removed.
RemoteDeleteItem(s) ==
    /\ calls[s].phase = "delete"
    /\ calls[s].pc = "await"
    /\ \E r \in prefTable :
          /\ r.id = calls[s].resp[calls[s].i].id
          /\ prefTable' = prefTable \ {r}
    /\ calls' = [calls EXCEPT ![s].pc = "ok"]
    /\ UNCHANGED <<defaultPreferences, preferences, settingsIsLoading, lastSynced, hist,
                   clock, ncalls, nextId, convVars, appVars, fileVars>>

\* Any remote call fails (network error, server error): the promise rejects.
RemoteReject(s) ==
    /\ calls[s].pc = "await"
    /\ calls' = [calls EXCEPT ![s].pc = "err"]
    /\ UNCHANGED <<defaultPreferences, preferences, settingsIsLoading, lastSynced, prefTable,
                   hist, clock, ncalls, nextId, convVars, appVars, fileVars>>

(***************************************************************************)
(* updatePreference(category, key, value)                                  *)
(***************************************************************************)
\* const { preferences } = get(): the snapshot a failing call restores.
Snapshot == preferences

\* { ...preferences, [category]: { ...preferences[category], ...entries } }
UpdatedPreferences(p, dp, c, entries) ==
    [shared |-> p.shared \ {c},
     own |-> SetKey(p.own, c,
                    SpreadEntries(IF c \in Keys(p) THEN Deref(p, dp)[c] ELSE NoObjects,
                                  entries))]

\* A catch block that only logs: the optimistic value stays.
Revert_NoRollback(s) == preferences

\* The catch block of updatePreference / updateCategory: set({ preferences }).
Revert(s) == calls[s].snap

updatePreference(s, c, k, v) ==
    /\ FreeSlotIn(calls, s, MaxSettingsCalls)
    /\ preferences' = UpdatedPreferences(preferences, defaultPreferences, c, <<<<k, v>>>>)
    /\ Begin(s, [Idle EXCEPT !.op = "updatePreference", !.pc = "await", !.snap = Snapshot,
                             !.phase = "add",
                             !.before = Prefs, !.cat = c, !.entries = <<<<k, v>>>>, !.i = 1,
                             !.row = AddRow(c, <<k, v>>, clock)])
    /\ clock' = clock + 1
    /\ UNCHANGED <<defaultPreferences, settingsIsLoading, lastSynced, prefTable, hist, nextId,
                   convVars, appVars, fileVars>>

updatePreferenceResume(s) ==
    /\ calls[s].op = "updatePreference"
    /\ \/ /\ calls[s].pc = "ok"
          /\ lastSynced' = clock
          /\ clock' = clock + 1
          /\ Settle(s, "ok")
          /\ UNCHANGED preferences
       \/ /\ calls[s].pc = "err"
          /\ preferences' = Revert(s)
          /\ Settle(s, "fail")
          /\ UNCHANGED <<lastSynced, clock>>
    /\ UNCHANGED <<defaultPreferences, settingsIsLoading, prefTable, ncalls, nextId, convVars, appVars, fileVars>>

(***************************************************************************)
(* updateCategory(category, updates): one addItem per entry of updates    *)
(***************************************************************************)
updateCategory(s, c, entries) ==
    /\ FreeSlotIn(calls, s, MaxSettingsCalls)
    /\ entries # <<>>
    /\ preferences' = UpdatedPreferences(preferences, defaultPreferences, c, entries)
    /\ Begin(s, [Idle EXCEPT !.op = "updateCategory", !.pc = "await", !.snap = Snapshot,
                             !.phase = "add",
                             !.before = Prefs, !.cat = c, !.entries = entries, !.i = 1,
                             !.row = AddRow(c, entries[1], clock)])
    /\ clock' = clock + 1
    /\ UNCHANGED <<defaultPreferences, settingsIsLoading, lastSynced, prefTable, hist, nextId,
                   convVars, appVars, fileVars>>

updateCategoryResume(s) ==
    /\ calls[s].op = "updateCategory"
    /\ \/ /\ calls[s].pc = "ok"
          /\ calls[s].i < Len(calls[s].entries)
          /\ calls' = [calls EXCEPT ![s].pc = "await", ![s].i = @ + 1,
                                    ![s].row = AddRow(calls[s].cat,
                                                      calls[s].entries[calls[s].i + 1], clock)]
          /\ clock' = clock + 1
          /\ UNCHANGED <<preferences, lastSynced, hist>>
       \/ /\ calls[s].pc = "ok"
          /\ calls[s].i = Len(calls[s].entries)
          /\ lastSynced' = clock
          /\ clock' = clock + 1
          /\ Settle(s, "ok")
          /\ UNCHANGED preferences
       \/ /\ calls[s].pc = "err"
          /\ preferences' = Revert(s)
          /\ Settle(s, "fail")
          /\ UNCHANGED <<lastSynced, clock>>
    /\ UNCHANGED <<defaultPreferences, settingsIsLoading, prefTable, ncalls, nextId, convVars, appVars, fileVars>>

(***************************************************************************)
(* syncPreferences()                                                       *)
(***************************************************************************)
syncPreferences(s) ==
    /\ FreeSlotIn(calls, s, MaxSettingsCalls)
    /\ settingsIsLoading' = TRUE
    /\ Begin(s, [Idle EXCEPT !.op = "syncPreferences", !.pc = "await", !.phase = "get"])
    /\ UNCHANGED <<defaultPreferences, preferences, lastSynced, prefTable, hist, clock, nextId,
                   convVars, appVars, fileVars>>

syncPreferencesResume(s) ==
    /\ calls[s].op = "syncPreferences"
    /\ \/ /\ calls[s].pc = "ok"
          /\ LET r == SyncLoop(defaultPreferences, calls[s].resp) IN
               /\ defaultPreferences' = r.dp
               /\ IF r.threw
                    THEN /\ Settle(s, "fail")
                         /\ UNCHANGED <<preferences, lastSynced, clock>>
                    ELSE /\ preferences' = RefDefaults
                         /\ lastSynced' = clock
                         /\ clock' = clock + 1
                         /\ Settle(s, "ok")
       \/ /\ calls[s].pc = "err"
          /\ Settle(s, "fail")
          /\ UNCHANGED <<defaultPreferences, preferences, lastSynced, clock>>
    /\ settingsIsLoading' = FALSE
    /\ UNCHANGED <<prefTable, ncalls, nextId, convVars, appVars, fileVars>>

(***************************************************************************)
(* resetCategory(category): getItems, one deleteItem per row returned,     *)
(* then one addItem per field of defaultPreferences[category]              *)
(***************************************************************************)
\* Object.entries(obj), over the keys still to list.
RECURSIVE EntriesOf(_, _)
EntriesOf(obj, keys) ==
    IF keys = {} THEN <<>>
    ELSE LET k == CHOOSE x \in keys : TRUE
         IN <<<<k, obj[k]>>>> \o EntriesOf(obj, keys \ {k})

\* { ...preferences, [category]: defaultPreferences[category] }: the slot of
\* the category references the category object of defaultPreferences.
ResetPreferences(p, c) ==
    [shared |-> p.shared \cup {c},
     own |-> [x \in DOMAIN p.own \ {c} |-> p.own[x]]]

\* The call c after one of its awaits has succeeded and another remote call
\* follows: the next delete, the first add, or the next add.  dp is
\* defaultPreferences as the second loop reads it, t the time.
ResetAdvance(c, dp, t) ==
    IF c.phase = "get" /\ c.resp # <<>>
      THEN [c EXCEPT !.pc = "await", !.phase = "delete", !.i = 1]
    ELSE IF c.phase = "delete" /\ c.i < Len(c.resp)
      THEN [c EXCEPT !.pc = "await", !.i = @ + 1]
    ELSE IF c.phase = "add" /\ c.i < Len(c.entries)
      THEN [c EXCEPT !.pc = "await", !.i = @ + 1,
                     !.row = AddRow(c.cat, c.entries[c.i + 1], t)]
    ELSE LET entries == EntriesOf(dp[c.cat], DOMAIN dp[c.cat])
         IN [c EXCEPT !.pc = "await", !.phase = "add", !.entries = entries, !.i = 1,
                      !.row = AddRow(c.cat, entries[1], t)]

\* Both loops of the call c are done.
ResetDone(c) == c.phase = "add" /\ c.i = Len(c.entries)

resetCategory(s, c) ==
    /\ FreeSlotIn(calls, s, MaxSettingsCalls)
    /\ preferences' = ResetPreferences(preferences, c)
    /\ Begin(s, [Idle EXCEPT !.op = "resetCategory", !.pc = "await", !.phase = "get",
                             !.snap = Snapshot, !.cat = c])
    /\ UNCHANGED <<defaultPreferences, settingsIsLoading, lastSynced, prefTable, hist, clock,
                   nextId, convVars, appVars, fileVars>>

resetCategoryResume(s) ==
    /\ calls[s].op = "resetCategory"
    /\ \/ /\ calls[s].pc = "ok"
          /\ ~ResetDone(calls[s])
          /\ calls' = [calls EXCEPT ![s] = ResetAdvance(calls[s], defaultPreferences, clock)]
          /\ clock' = clock + 1
          /\ UNCHANGED <<preferences, lastSynced, hist>>
       \/ /\ calls[s].pc = "ok"
          /\ ResetDone(calls[s])
          /\ lastSynced' = clock
          /\ clock' = clock + 1
          /\ Settle(s, "ok")
          /\ UNCHANGED preferences
       \/ /\ calls[s].pc = "err"
          /\ preferences' = Revert(s)
          /\ Settle(s, "fail")
          /\ UNCHANGED <<lastSynced, clock>>
    /\ UNCHANGED <<defaultPreferences, settingsIsLoading, prefTable, ncalls, nextId, convVars, appVars,
                   fileVars>>

(***************************************************************************)
(* exportPreferences(), importPreferences(data).  The text of a payload is *)
(* modelled by what JSON.parse makes of it: whether it parses, the members *)
(* of the object, and the entries of its preferences member.               *)
(***************************************************************************)
\* JSON.stringify drops the members whose value is undefined.
RECURSIVE DefinedEntries(_)
DefinedEntries(entries) ==
    IF entries = <<>> THEN <<>>
    ELSE IF entries[1][2] = UNDEF THEN DefinedEntries(Tail(entries))
    ELSE <<entries[1]>> \o DefinedEntries(Tail(entries))

\* The categories cats of the preference set P, each with its entries.
RECURSIVE CategoryEntries(_, _)
CategoryEntries(P, cats) ==
    IF cats = {} THEN <<>>
    ELSE LET c == CHOOSE x \in cats : TRUE
         IN <<<<c, DefinedEntries(EntriesOf(P[c], DOMAIN P[c]))>>>>
            \o CategoryEntries(P, cats \ {c})

\* JSON.stringify({ preferences: P, exportedAt: t, version: '1.0' }, null, 2)
ExportOf(P, t) ==
    [parses |-> TRUE, members |-> {"preferences", "exportedAt", "version"},
     preferences |-> CategoryEntries(P, DOMAIN P), exportedAt |-> t, version |-> "1.0"]

exportPreferences == ExportOf(Prefs, clock)

\* A check that asks for the preferences member only.
ImportAccepted_NoVersion(data) ==
    data.parses /\ "preferences" \in data.members

\* JSON.parse(data) returns, and imported.preferences && imported.version.
ImportAccepted(data) ==
    /\ data.parses
    /\ "preferences" \in data.members
    /\ "version" \in data.members
    /\ data.version # ""

\* The import reaches `await updateCategory(category, categoryPrefs)` for entry
\* k of Object.entries(imported.preferences): updateCategory takes its snapshot
\* of the preferences p, sets the merged preferences and calls addItem for the
\* first entry (at time t).
ImportCategory(s, data, k, p, t, failed) ==
    LET c == data.preferences[k][1]
        entries == data.preferences[k][2]
    IN /\ preferences' = UpdatedPreferences(p, defaultPreferences, c, entries)
       /\ calls' = [calls EXCEPT ![s].pc = "await", ![s].snap = p, ![s].cat = c,
                                 ![s].entries = entries, ![s].i = 1,
                                 ![s].row = AddRow(c, entries[1], t),
                                 ![s].k = k, ![s].failed = failed]
       /\ clock' = t + 1

importPreferences(s, data) ==
    /\ FreeSlotIn(calls, s, MaxSettingsCalls)
    /\ \/ /\ ~ImportAccepted(data)
          /\ ncalls' = ncalls + 1
          /\ hist' = [hist EXCEPT ![s] = [NoHist EXCEPT !.id = ncalls + 1,
                                                        !.op = "importPreferences",
                                                        !.res = "invalid",
                                                        !.ov = {calls[u].id : u \in Active},
                                                        !.promise = "rejected"]]
          /\ UNCHANGED <<preferences, calls, clock>>
       \/ /\ ImportAccepted(data)
          /\ LET c == data.preferences[1][1]
                 entries == data.preferences[1][2]
             IN /\ preferences' = UpdatedPreferences(preferences, defaultPreferences, c,
                                                     entries)
                /\ Begin(s, [Idle EXCEPT !.op = "importPreferences", !.pc = "await",
                                         !.snap = Snapshot, !.phase = "add",
                                         !.before = Prefs, !.cat = c,
                                         !.entries = entries, !.i = 1,
                                         !.row = AddRow(c, entries[1], clock),
                                         !.data = data, !.k = 1])
          /\ clock' = clock + 1
          /\ UNCHANGED hist
    /\ UNCHANGED <<defaultPreferences, settingsIsLoading, lastSynced, prefTable, nextId,
                   convVars, appVars, fileVars>>

\* The updateCategory call the import awaits resumes after an addItem: the next
\* entry, or the end of the category (set({ lastSynced })), or its catch block
\* (set({ preferences })); updateCategory then returns and the loop of the
\* import goes on to the next category, or the import returns.
importPreferencesResume(s) ==
    /\ calls[s].op = "importPreferences"
    /\ \/ /\ calls[s].pc = "ok"
          /\ calls[s].i < Len(calls[s].entries)
          /\ calls' = [calls EXCEPT ![s].pc = "await", ![s].i = @ + 1,
                                    ![s].row = AddRow(calls[s].cat,
                                                      calls[s].entries[calls[s].i + 1], clock)]
          /\ clock' = clock + 1
          /\ UNCHANGED <<preferences, lastSynced, hist>>
       \/ /\ calls[s].pc = "ok"
          /\ calls[s].i = Len(calls[s].entries)
          /\ lastSynced' = clock
          /\ IF calls[s].k < Len(calls[s].data.preferences)
               THEN /\ ImportCategory(s, calls[s].data, calls[s].k + 1, preferences,
                                      clock + 1, calls[s].failed)
                    /\ UNCHANGED hist
               ELSE /\ Settle(s, IF calls[s].failed THEN "fail" ELSE "ok")
                    /\ clock' = clock + 1
                    /\ UNCHANGED preferences
       \/ /\ calls[s].pc = "err"
          /\ IF calls[s].k < Len(calls[s].data.preferences)
               THEN /\ ImportCategory(s, calls[s].data, calls[s].k + 1, Revert(s), clock,
                                      TRUE)
                    /\ UNCHANGED hist
               ELSE /\ preferences' = Revert(s)
                    /\ Settle(s, "fail")
                    /\ UNCHANGED clock
          /\ UNCHANGED lastSynced
    /\ UNCHANGED <<defaultPreferences, settingsIsLoading, prefTable, ncalls, nextId, convVars, appVars,
                   fileVars>>

(***************************************************************************)
(* Inputs and initial states                                               *)
(***************************************************************************)
\* The export a user took when the session started.
ExportAtStart == ExportOf(DefaultPreferences, 0)

\* A payload written by another version of the client: a category and a field
\* this store does not declare.
ForeignPayload ==
    [parses |-> TRUE, members |-> {"preferences", "version"},
     preferences |-> <<<<"plugins", <<<<"enabled", "true">>>>>>,
                       <<"theme", <<<<"layout", "wide">>>>>>>>,
     exportedAt |-> 0, version |-> "1.0"]

\* Payloads without the version member, without the preferences member, and
\* text JSON.parse throws on.
NoVersionPayload ==
    [parses |-> TRUE, members |-> {"preferences", "exportedAt"},
     preferences |-> <<<<"theme", <<<<"mode", "light">>>>>>>>,
     exportedAt |-> 0, version |-> ""]

NoPreferencesPayload ==
    [parses |-> TRUE, members |-> {"exportedAt", "version"}, preferences |-> <<>>,
     exportedAt |-> 0, version |-> "1.0"]

UnparseablePayload == NoPayload

\* The payloads importPreferences must refuse.
InvalidPayloads == {NoVersionPayload, NoPreferencesPayload, UnparseablePayload}

\* The files the settings page may be given to import: the export of the
\* current preferences, an earlier export, a foreign file, an invalid file.
ImportInputs ==
    {exportPreferences, ExportAtStart, ForeignPayload} \cup InvalidPayloads

\* The (category, key, value) arguments the settings page passes to updatePreference.
UpdateInputs ==
    {<<"theme", "mode", "light">>, <<"theme", "accentColor", "#ffffff">>,
     <<"ai", "temperature", "0.9">>}

\* The (category, updates) arguments of updateCategory.
CategoryInputs ==
    {<<"theme", <<<<"mode", "system">>, <<"fontSize", "large">>>>>>,
     <<"ai", <<<<"maxTokens", "4000">>>>>>}

\* Rows the remote table may hold when the session starts: written by earlier
\* sessions (one row per updatePreference, so several for one field), by other
\* versions of the client (unknown keys and categories), or damaged.
SeedRows ==
    {PrefRow(101, "theme", "mode", Stringify("light", 2), 2),
     PrefRow(102, "theme", "mode", Stringify("system", 1), 1),
     PrefRow(103, "ai", "temperature", Stringify("0.9", 1), 1),
     PrefRow(104, "ai", "temperature", Stringify(UNDEF, 1), 1),
     PrefRow(105, "ai", "temperature", MissingValue, 1),
     PrefRow(106, "ai", "maxTokens", CorruptValue, 2),
     PrefRow(107, "theme", "layout", Stringify("wide", 1), 1),
     PrefRow(108, "plugins", "enabled", Stringify("true", 1), 1)}

SettingsInit ==
    /\ defaultPreferences = DefaultPreferences
    /\ preferences = RefDefaults
    /\ settingsIsLoading = FALSE
    /\ lastSynced = 0
    /\ calls = [s \in Slots |-> Idle]
    /\ hist = [s \in Slots |-> NoHist]
    /\ clock = 3
    /\ ncalls = 0
    /\ nextId = 1

(***************************************************************************)
(* Properties of the settings store                                        *)
(***************************************************************************)
UpdateOps == {"updatePreference", "updateCategory"}

\* C2: when the remote add of an updatePreference or updateCategory call fails
\* and no other preference operation overlapped the call, the preferences a
\* reader sees after the call are those it saw immediately before the call.
C2_RollbackRestoresPreferences ==
    [][\A s \in Slots :
          (/\ calls[s].op \in UpdateOps
           /\ calls[s].pc = "err"
           /\ calls[s].ov = {}
           /\ calls'[s].op = "idle")
          => Prefs' = calls[s].before]_vars

\* An updateCategory call that nothing overlapped, whose first add reached the
\* table and whose second add failed, has settled.
C2_Witness ==
    \E s \in Slots :
       /\ hist[s].op = "updateCategory"
       /\ hist[s].res = "fail"
       /\ hist[s].ov = {}
       /\ Len(hist[s].entries) = 2
       /\ \E r \in prefTable : r.category = hist[s].cat /\ r.key = hist[s].entries[1][1]
       /\ calls[s].op = "idle"

\* C3: two updatePreference calls on different fields that overlap only each
\* other: once both have settled, the field written by the call whose add
\* succeeded holds its new value, also when the other call failed.
C3_OverlappingUpdatesIndependent ==
    \A a, b \in Slots :
       (/\ Active = {}
        /\ hist[a].op = "updatePreference" /\ hist[a].res = "ok"
        /\ hist[b].op = "updatePreference" /\ hist[b].res = "fail"
        /\ hist[a].ov = {hist[b].id} /\ hist[b].ov = {hist[a].id}
        /\ <<hist[a].cat, hist[a].entries[1][1]>> # <<hist[b].cat, hist[b].entries[1][1]>>)
       => Prefs[hist[a].cat][hist[a].entries[1][1]] = hist[a].entries[1][2]

\* C8: every known field of every category has a defined value.
C8_EveryFieldDefined ==
    \A c \in Categories :
       /\ c \in DOMAIN Prefs
       /\ \A k \in Fields(c) : k \in DOMAIN Prefs[c] /\ Prefs[c][k] # UNDEF

\* C9: rows with an unknown category or an unknown key change nothing: the
\* preferences keep exactly the six categories, each with exactly its fields.
C9_UnknownRowsChangeNothing ==
    /\ DOMAIN Prefs = Categories
    /\ \A c \in Categories : DOMAIN Prefs[c] = Fields(c)

\* The rows of the table that carry a JSON value for field k of category c.
ValueRows(c, k) ==
    {r \in prefTable : r.category = c /\ r.key = k /\ r.value.kind = "json"}

\* C10: after a successful syncPreferences, a field for which the table holds
\* several rows has the value of the row with the greatest updatedAt.
C10_GreatestUpdatedAtWins ==
    (/\ Active = {}
     /\ \E s \in Slots : hist[s].op = "syncPreferences" /\ hist[s].res = "ok")
    => \A c \in Categories : \A k \in Fields(c) : \A r \in ValueRows(c, k) :
          (\A q \in ValueRows(c, k) \ {r} : q.value.updatedAt < r.value.updatedAt)
          => (k \in DOMAIN Prefs[c] /\ Prefs[c][k] = ParsedValue(r.value))

(***************************************************************************)
(*                         Conversation store                              *)
(*                                                                         *)
(* A Conversation is [id, title, tool_type, messages, created_at,         *)
(* updated_at]; a Message is [id, role, content, timestamp].  (The        *)
(* metadata members are carried nowhere by the operations below but       *)
(* through JSON and are left out.)                                         *)
(***************************************************************************)
NoConversation == [id |-> ""]

\* JSON.stringify(messages) and JSON.parse(item.messages || '[]').
StringifyMessages(msgs) == [text |-> "json", arr |-> msgs]

ParseMessages(w) == IF w.text = "" THEN <<>> ELSE w.arr

\* The user every row of the session belongs to (the row's _uid).
OwnerUid == "u1"

ConvRow(id, title, msgs, t) ==
    [_id |-> id, _uid |-> OwnerUid, title |-> title, tool_type |-> "chat",
     messages |-> msgs, created_at |-> t, updated_at |-> t]

\* response.items.map(item => ({ id: item._id, ... })): the _uid is not kept.
ToConversation(item) ==
    [id |-> item._id, title |-> item.title, tool_type |-> item.tool_type,
     messages |-> ParseMessages(item.messages), created_at |-> item.created_at,
     updated_at |-> item.updated_at]

\* conversations.find(c => c.id === id), NoConversation for undefined.
FindConversation(convs, id) ==
    IF \E i \in 1..Len(convs) : convs[i].id = id
      THEN convs[CHOOSE i \in 1..Len(convs) :
                   convs[i].id = id /\ \A j \in 1..(i - 1) : convs[j].id # id]
      ELSE NoConversation

\* A map that returns every entry as it was.
ReplaceConversation_Keep(convs, id, updated) == convs

\* conversations.map(c => c.id === id ? updated : c)
ReplaceConversation(convs, id, updated) ==
    [i \in 1..Len(convs) |-> IF convs[i].id = id THEN updated ELSE convs[i]]

\* conversations.filter(c => c.id !== id)
RECURSIVE RemoveConversation(_, _)
RemoveConversation(convs, id) ==
    IF convs = <<>> THEN <<>>
    ELSE IF convs[1].id # id THEN <<convs[1]>> \o RemoveConversation(Tail(convs), id)
    ELSE RemoveConversation(Tail(convs), id)

ConvIdsOf(convs) == {convs[i].id : i \in 1..Len(convs)}

\* The orders getItems may return rows in under sort: 'updated_at', order: 'desc'.
ByUpdatedAtDesc(S) ==
    {f \in Orders(S) : \A i, j \in 1..Cardinality(S) :
                          i < j => f[i].updated_at >= f[j].updated_at}

(***************************************************************************)
(* Calls of the conversation store                                         *)
(***************************************************************************)
NoRequest == [kind |-> "none", _uid |-> "", _id |-> "", hasTitle |-> FALSE, title |-> "",
              hasMessages |-> FALSE, messages |-> StringifyMessages(<<>>), updated_at |-> 0]

ConvIdle ==
    [op |-> "idle", pc |-> "idle", id |-> 0, ov |-> {}, req |-> NoRequest, resp |-> <<>>,
     before |-> [conversations |-> <<>>, currentConversation |-> NoConversation],
     phase |-> "", now |-> 0, toolType |-> "", row |-> NoConversation]

NoConvHist == [id |-> 0, op |-> "none", res |-> "none", ov |-> {}, target |-> "", ret |-> ""]

ConvSettle(s, res) ==
    /\ convCalls' = [convCalls EXCEPT ![s] = ConvIdle]
    /\ convHist' = [convHist EXCEPT ![s] = [id |-> convCalls[s].id, op |-> convCalls[s].op,
                                            res |-> res, ov |-> convCalls[s].ov,
                                            target |-> convCalls[s].req._id, ret |-> ""]]

\* The local cache as a call finds it.
ConvCache == [conversations |-> conversations, currentConversation |-> currentConversation]

\* The _uid the conversation store puts in its update and delete requests:
\* _uid: '' ("Will be filled by SDK"); a Conversation of the cache holds none.
ConvRequestUid(id) == ""

(***************************************************************************)
(* The remote table service (conversations table)                          *)
(***************************************************************************)
RemoteGetConversations(s) ==
    /\ convCalls[s].req.kind = "get"
    /\ convCalls[s].pc = "await"
    /\ \E items \in ByUpdatedAtDesc(convTable) :
          convCalls' = [convCalls EXCEPT ![s].pc = "ok", ![s].resp = items]
    /\ UNCHANGED <<conversations, currentConversation, convIsLoading, convError, convTable,
                   convHist, convSent, convDeleted, settingsVars, fileVars, appVars, sharedVars>>

\* table.updateItem succeeds: the members of the request are written into the row.
PatchConvRow(row, req) ==
    [row EXCEPT !.title = IF req.hasTitle THEN req.title ELSE @,
                !.messages = IF req.hasMessages THEN req.messages ELSE @,
                !.updated_at = req.updated_at]

RemoteUpdateConversation(s) ==
    /\ convCalls[s].req.kind = "update"
    /\ convCalls[s].pc = "await"
    /\ \E row \in convTable :
          /\ row._id = convCalls[s].req._id
          /\ convTable' = (convTable \ {row}) \cup {PatchConvRow(row, convCalls[s].req)}
    /\ convCalls' = [convCalls EXCEPT ![s].pc = "ok"]
    /\ UNCHANGED <<conversations, currentConversation, convIsLoading, convError,
                   convHist, convSent, convDeleted, settingsVars, fileVars, appVars, sharedVars>>

\* table.deleteItem succeeds: the row is gone.
RemoteDeleteConversation(s) ==
    /\ convCalls[s].req.kind = "delete"
    /\ convCalls[s].pc = "await"
    /\ convTable' = {row \in convTable : row._id # convCalls[s].req._id}
    /\ convCalls' = [convCalls EXCEPT ![s].pc = "ok"]
    /\ UNCHANGED <<conversations, currentConversation, convIsLoading, convError,
                   convHist, convSent, convDeleted, settingsVars, fileVars, appVars, sharedVars>>

RemoteRejectConversation(s) ==
    /\ convCalls[s].pc = "await"
    /\ convCalls' = [convCalls EXCEPT ![s].pc = "err"]
    /\ UNCHANGED <<conversations, currentConversation, convIsLoading, convError, convTable,
                   convHist, convSent, convDeleted, settingsVars, fileVars, appVars, sharedVars>>

(***************************************************************************)
(* loadConversations()                                                     *)
(***************************************************************************)
loadConversations(s) ==
    /\ FreeSlotIn(convCalls, s, MaxConvCalls)
    /\ convIsLoading' = TRUE
    /\ convError' = ""
    /\ convCalls' = StartIn(convCalls, s,
                            [ConvIdle EXCEPT !.op = "loadConversations", !.pc = "await",
                                             !.req.kind = "get"])
    /\ ncalls' = ncalls + 1
    /\ UNCHANGED <<conversations, currentConversation, convTable, convHist, convSent,
                   convDeleted, settingsVars, fileVars, appVars, clock, nextId>>

\* A catch block that empties the list.
CacheAfterFailedLoad_Empty(s) == <<>>

\* catch of loadConversations: set({ error, isLoading: false }); conversations is
\* not among the members set.
CacheAfterFailedLoad(s) == conversations

loadConversationsResume(s) ==
    /\ convCalls[s].op = "loadConversations"
    /\ \/ /\ convCalls[s].pc = "ok"
          /\ conversations' = [i \in 1..Len(convCalls[s].resp) |->
                                 ToConversation(convCalls[s].resp[i])]
          /\ ConvSettle(s, "ok")
          /\ UNCHANGED convError
       \/ /\ convCalls[s].pc = "err"
          /\ convError' = "Failed to load conversations"
          /\ ConvSettle(s, "fail")
          /\ conversations' = CacheAfterFailedLoad(s)
    /\ convIsLoading' = FALSE
    /\ UNCHANGED <<currentConversation, convTable, convSent, convDeleted, settingsVars, fileVars, appVars,
                   sharedVars>>

(***************************************************************************)
(* createConversation(toolType, title): table.addItem, then                *)
(* loadConversations(), then the new conversation is looked up by its      *)
(* created_at and tool_type                                                *)
(***************************************************************************)
\* title || `New ${toolType} conversation`
ConversationTitle(toolType, title) ==
    IF title # "" THEN title
    ELSE CASE toolType = "chat" -> "New chat conversation"
           [] toolType = "email" -> "New email conversation"
           [] OTHER -> "New conversation"

\* conversationData; the row has no _id before the remote service stores it.
ConversationData(toolType, title, now) ==
    [ConvRow("", ConversationTitle(toolType, title), StringifyMessages(<<>>), now)
       EXCEPT !.tool_type = toolType]

\* The _id the remote service gives the row of the n-th call.
NewConvIds == <<"n1", "n2", "n3", "n4", "n5", "n6">>

\* const now = new Date().toISOString(): the reading of the clock; the next
\* reading is the same millisecond or a later one.
createConversation(s, toolType, title) ==
    /\ FreeSlotIn(convCalls, s, MaxConvCalls)
    /\ convError' = ""
    /\ convCalls' = StartIn(convCalls, s,
                            [ConvIdle EXCEPT !.op = "createConversation", !.pc = "await",
                                             !.phase = "add", !.now = clock,
                                             !.toolType = toolType,
                                             !.row = ConversationData(toolType, title, clock)])
    /\ clock' \in {clock, clock + 1}
    /\ ncalls' = ncalls + 1
    /\ UNCHANGED <<conversations, currentConversation, convIsLoading, convTable, convHist,
                   convSent, convDeleted, settingsVars, fileVars, appVars, nextId>>

\* table.addItem succeeds: the row is stored under a new _id.
RemoteAddConversation(s) ==
    /\ convCalls[s].phase = "add"
    /\ convCalls[s].pc = "await"
    /\ convTable' = convTable \cup {[convCalls[s].row EXCEPT !._id = NewConvIds[convCalls[s].id]]}
    /\ convCalls' = [convCalls EXCEPT ![s].pc = "ok"]
    /\ UNCHANGED <<conversations, currentConversation, convIsLoading, convError,
                   convHist, convSent, convDeleted, settingsVars, fileVars, appVars, sharedVars>>

\* conversations.find(c => c.created_at === now && c.tool_type === toolType);
\* return newConversation?.id || ''
RECURSIVE NewConversationId(_, _, _)
NewConversationId(convs, now, toolType) ==
    IF convs = <<>> THEN ""
    ELSE IF convs[1].created_at = now /\ convs[1].tool_type = toolType THEN convs[1].id
    ELSE NewConversationId(Tail(convs), now, toolType)

\* createConversation returns to its caller.
CreateSettle(s, res, ret) ==
    /\ convCalls' = [convCalls EXCEPT ![s] = ConvIdle]
    /\ convHist' = [convHist EXCEPT ![s] = [id |-> convCalls[s].id, op |-> convCalls[s].op,
                                            res |-> res, ov |-> convCalls[s].ov,
                                            target |-> "", ret |-> ret]]

createConversationResume(s) ==
    /\ convCalls[s].op = "createConversation"
    /\ \/ /\ convCalls[s].phase = "add"
          /\ convCalls[s].pc = "ok"
          /\ convIsLoading' = TRUE
          /\ convError' = ""
          /\ convCalls' = [convCalls EXCEPT ![s].pc = "await", ![s].phase = "load",
                                            ![s].req.kind = "get"]
          /\ UNCHANGED <<conversations, convHist>>
       \/ /\ convCalls[s].phase = "add"
          /\ convCalls[s].pc = "err"
          /\ convError' = "Failed to create conversation"
          /\ CreateSettle(s, "fail", "")
          /\ UNCHANGED <<conversations, convIsLoading>>
       \/ /\ convCalls[s].phase = "load"
          /\ convCalls[s].pc = "ok"
          /\ conversations' = [i \in 1..Len(convCalls[s].resp) |->
                                 ToConversation(convCalls[s].resp[i])]
          /\ convIsLoading' = FALSE
          /\ CreateSettle(s, "ok", NewConversationId(conversations', convCalls[s].now,
                                                     convCalls[s].toolType))
          /\ UNCHANGED convError
       \/ /\ convCalls[s].phase = "load"
          /\ convCalls[s].pc = "err"
          /\ conversations' = CacheAfterFailedLoad(s)
          /\ convError' = "Failed to load conversations"
          /\ convIsLoading' = FALSE
          /\ CreateSettle(s, "stale", NewConversationId(conversations, convCalls[s].now,
                                                        convCalls[s].toolType))
    /\ UNCHANGED <<currentConversation, convTable, convSent, convDeleted, settingsVars,
                   fileVars, appVars, sharedVars>>

(***************************************************************************)
(* selectConversation(conversationId), clearError()                        *)
(***************************************************************************)
selectConversation(id) ==
    /\ currentConversation' = FindConversation(conversations, id)
    /\ UNCHANGED <<conversations, convIsLoading, convError, convTable, convCalls, convHist,
                   convSent, convDeleted, settingsVars, fileVars, appVars, sharedVars>>

clearError ==
    /\ convError # ""
    /\ convError' = ""
    /\ UNCHANGED <<conversations, currentConversation, convIsLoading, convTable, convCalls,
                   convHist, convSent, convDeleted, settingsVars, fileVars, appVars, sharedVars>>

(***************************************************************************)
(* addMessage(message): the message is appended to currentConversation    *)
(* and to its entry of conversations, then persisted with updateItem.     *)
(***************************************************************************)
NewMessage(role, n, t) == [id |-> n, role |-> role, content |-> "hello", timestamp |-> t]

addMessage(s, role) ==
    /\ FreeSlotIn(convCalls, s, MaxConvCalls)
    /\ currentConversation # NoConversation
    /\ LET updatedMessages ==
               Append(currentConversation.messages, NewMessage(role, ncalls + 1, clock))
           updatedConversation ==
               [currentConversation EXCEPT !.messages = updatedMessages,
                                           !.updated_at = clock]
           req == [NoRequest EXCEPT !.kind = "update",
                                    !._uid = ConvRequestUid(currentConversation.id),
                                    !._id = currentConversation.id,
                                    !.hasMessages = TRUE,
                                    !.messages = StringifyMessages(updatedMessages),
                                    !.updated_at = clock]
       IN /\ currentConversation' = updatedConversation
          /\ conversations' = ReplaceConversation(conversations, currentConversation.id,
                                                  updatedConversation)
          /\ convCalls' = StartIn(convCalls, s,
                                  [ConvIdle EXCEPT !.op = "addMessage", !.pc = "await",
                                                   !.req = req, !.before = ConvCache])
          /\ convSent' = convSent \cup {[op |-> "addMessage", _id |-> req._id,
                                         _uid |-> req._uid]}
    /\ ncalls' = ncalls + 1
    /\ clock' = clock + 1
    /\ UNCHANGED <<convIsLoading, convError, convTable, convHist, convDeleted, settingsVars, fileVars, appVars,
                   nextId>>

\* The catch block of addMessage and updateConversation: set({ error }) only.
CacheAfterFailedUpdate(s) == ConvCache

addMessageResume(s) ==
    /\ convCalls[s].op = "addMessage"
    /\ \/ /\ convCalls[s].pc = "ok"
          /\ ConvSettle(s, "ok")
          /\ UNCHANGED <<conversations, currentConversation, convError>>
       \/ /\ convCalls[s].pc = "err"
          /\ conversations' = CacheAfterFailedUpdate(s).conversations
          /\ currentConversation' = CacheAfterFailedUpdate(s).currentConversation
          /\ convError' = "Failed to save message"
          /\ ConvSettle(s, "fail")
    /\ UNCHANGED <<convIsLoading, convTable, convSent, convDeleted, settingsVars, fileVars, appVars, sharedVars>>

(***************************************************************************)
(* updateConversation(conversationId, updates), updates = { title }       *)
(***************************************************************************)
updateConversation(s, id, title) ==
    /\ FreeSlotIn(convCalls, s, MaxConvCalls)
    /\ FindConversation(conversations, id) # NoConversation
    /\ LET updatedConversation ==
               [FindConversation(conversations, id) EXCEPT !.title = title,
                                                           !.updated_at = clock]
           req == [NoRequest EXCEPT !.kind = "update", !._uid = ConvRequestUid(id),
                                    !._id = id, !.hasTitle = (title # ""),
                                    !.title = title, !.updated_at = clock]
       IN /\ conversations' = ReplaceConversation(conversations, id, updatedConversation)
          /\ currentConversation' = IF currentConversation.id = id THEN updatedConversation
                                    ELSE currentConversation
          /\ convCalls' = StartIn(convCalls, s,
                                  [ConvIdle EXCEPT !.op = "updateConversation",
                                                   !.pc = "await", !.req = req,
                                                   !.before = ConvCache])
          /\ convSent' = convSent \cup {[op |-> "updateConversation", _id |-> req._id,
                                         _uid |-> req._uid]}
    /\ ncalls' = ncalls + 1
    /\ clock' = clock + 1
    /\ UNCHANGED <<convIsLoading, convError, convTable, convHist, convDeleted, settingsVars, fileVars, appVars,
                   nextId>>

updateConversationResume(s) ==
    /\ convCalls[s].op = "updateConversation"
    /\ \/ /\ convCalls[s].pc = "ok"
          /\ ConvSettle(s, "ok")
          /\ UNCHANGED <<conversations, currentConversation, convError>>
       \/ /\ convCalls[s].pc = "err"
          /\ conversations' = CacheAfterFailedUpdate(s).conversations
          /\ currentConversation' = CacheAfterFailedUpdate(s).currentConversation
          /\ convError' = "Failed to update conversation"
          /\ ConvSettle(s, "fail")
    /\ UNCHANGED <<convIsLoading, convTable, convSent, convDeleted, settingsVars, fileVars, appVars, sharedVars>>

(***************************************************************************)
(* deleteConversation(conversationId): the remote delete is awaited       *)
(* first; the cache changes only once it has succeeded.                    *)
(***************************************************************************)
\* conversations.filter(...), currentConversation?.id === id ? null : currentConversation
CacheWithout(id) ==
    [conversations |-> RemoveConversation(conversations, id),
     currentConversation |-> IF currentConversation.id = id THEN NoConversation
                             ELSE currentConversation]

\* A delete that removes the conversation from the cache before its remote call.
CacheBeforeDeleteAwait_Eager(id) == CacheWithout(id)

\* The cache when deleteConversation suspends at await table.deleteItem.
CacheBeforeDeleteAwait(id) == ConvCache

deleteConversation(s, id) ==
    /\ FreeSlotIn(convCalls, s, MaxConvCalls)
    /\ conversations' = CacheBeforeDeleteAwait(id).conversations
    /\ currentConversation' = CacheBeforeDeleteAwait(id).currentConversation
    /\ LET req == [NoRequest EXCEPT !.kind = "delete", !._uid = ConvRequestUid(id),
                                    !._id = id]
       IN /\ convCalls' = StartIn(convCalls, s,
                                  [ConvIdle EXCEPT !.op = "deleteConversation",
                                                   !.pc = "await", !.req = req,
                                                   !.before = ConvCache])
          /\ convSent' = convSent \cup {[op |-> "deleteConversation", _id |-> req._id,
                                         _uid |-> req._uid]}
    /\ ncalls' = ncalls + 1
    /\ UNCHANGED <<convIsLoading, convError, convTable, convHist, convDeleted, settingsVars, fileVars, appVars,
                   clock, nextId>>

deleteConversationResume(s) ==
    /\ convCalls[s].op = "deleteConversation"
    /\ \/ /\ convCalls[s].pc = "ok"
          /\ conversations' = CacheWithout(convCalls[s].req._id).conversations
          /\ currentConversation' = CacheWithout(convCalls[s].req._id).currentConversation
          /\ convDeleted' = convDeleted \cup {convCalls[s].req._id}
          /\ ConvSettle(s, "ok")
          /\ UNCHANGED convError
       \/ /\ convCalls[s].pc = "err"
          /\ convError' = "Failed to delete conversation"
          /\ ConvSettle(s, "fail")
          /\ UNCHANGED <<conversations, currentConversation, convDeleted>>
    /\ UNCHANGED <<convIsLoading, convTable, convSent, settingsVars, fileVars, appVars, sharedVars>>

\* The conversations of the remote table when the session starts.
SeedConversations ==
    {ConvRow("c1", "First", StringifyMessages(<<>>), 1),
     ConvRow("c2", "Second", [text |-> "", arr |-> <<>>], 2)}

ConvIds == {row._id : row \in SeedConversations}

ConvInit ==
    /\ conversations = <<>>
    /\ currentConversation = NoConversation
    /\ convIsLoading = FALSE
    /\ convError = ""
    /\ convTable = SeedConversations
    /\ convCalls = [s \in Slots |-> ConvIdle]
    /\ convHist = [s \in Slots |-> NoConvHist]
    /\ convSent = {}
    /\ convDeleted = {}

(***************************************************************************)
(*                              File store                                 *)
(***************************************************************************)
FileRow(id, name, type, size, category, t, state) ==
    [_id |-> id, _uid |-> OwnerUid, filename |-> name, file_url |-> id, file_size |-> size,
     file_type |-> type, upload_date |-> t, description |-> "", category |-> category,
     is_deleted |-> state]

NoFile == [_id |-> ""]

\* get().files.find(f => f._id === fileId), NoFile for undefined.
FindFile(fs, id) ==
    IF \E i \in 1..Len(fs) : fs[i]._id = id
      THEN fs[CHOOSE i \in 1..Len(fs) : fs[i]._id = id /\ \A j \in 1..(i - 1) : fs[j]._id # id]
      ELSE NoFile

\* state.files.filter(f => f._id !== fileId)
RECURSIVE RemoveFile(_, _)
RemoveFile(fs, id) ==
    IF fs = <<>> THEN <<>>
    ELSE IF fs[1]._id # id THEN <<fs[1]>> \o RemoveFile(Tail(fs), id)
    ELSE RemoveFile(Tail(fs), id)

\* state.files.map(f => f._id === fileId ? { ...f, description } : f)
DescribeFile(fs, id, description) ==
    [i \in 1..Len(fs) |-> IF fs[i]._id = id THEN [fs[i] EXCEPT !.description = description]
                          ELSE fs[i]]

FileIdsOf(fs) == {fs[i]._id : i \in 1..Len(fs)}

\* A query that names no is_deleted filter.
QueryActive_NoFilter(rows) == rows

\* query: { is_deleted: 'active' }
QueryActive(rows) == {r \in rows : r.is_deleted = "active"}

\* The orders getItems may return rows in under sort: 'upload_date', order: 'desc'.
ByUploadDateDesc(S) ==
    {f \in Orders(S) : \A i, j \in 1..Cardinality(S) :
                          i < j => f[i].upload_date >= f[j].upload_date}

NoFileRequest == [kind |-> "none", _uid |-> "", _id |-> "", hasDeleted |-> FALSE,
                  hasDescription |-> FALSE, description |-> ""]

\* No File object.
NoUpload == [name |-> "", type |-> "", size |-> 0]

FileIdle ==
    [op |-> "idle", pc |-> "idle", id |-> 0, ov |-> {}, req |-> NoFileRequest, resp |-> <<>>,
     after |-> {}, phase |-> "", file |-> NoUpload, category |-> "", row |-> NoFile,
     before |-> <<>>]

NoFileHist ==
    [id |-> 0, op |-> "none", res |-> "none", ov |-> {}, target |-> "", after |-> {},
     promise |-> "none", name |-> "", link |-> "", ret |-> NoFile]

\* loadFiles: try / catch (console.error only) / finally; the promise resolves.
LoadFilesPromise(res) == "resolved"

\* A catch block that only logs.
FileMutationPromise_Swallow(res) == "resolved"

\* deleteFile, updateFileDescription: catch (error) { ...; throw error; }
FileMutationPromise(res) == IF res = "fail" THEN "rejected" ELSE "resolved"

\* The call of slot s returns to its caller, its promise resolved or rejected.
FileSettle(s, res, promise) ==
    /\ fileCalls' = [fileCalls EXCEPT ![s] = FileIdle]
    /\ fileHist' = [fileHist EXCEPT ![s] = [id |-> fileCalls[s].id, op |-> fileCalls[s].op,
                                            res |-> res, ov |-> fileCalls[s].ov,
                                            target |-> fileCalls[s].req._id,
                                            after |-> fileCalls[s].after,
                                            promise |-> promise, name |-> "", link |-> "",
                                            ret |-> NoFile]]

(***************************************************************************)
(* The remote table service (files table)                                  *)
(***************************************************************************)
\* limit: 100
LoadLimit == 100

\* The first n items of a result.
Take(items, n) == SubSeq(items, 1, IF Len(items) < n THEN Len(items) ELSE n)

RemoteGetFiles(s) ==
    /\ fileCalls[s].req.kind = "get"
    /\ fileCalls[s].pc = "await"
    /\ \E items \in ByUploadDateDesc(QueryActive(fileTable)) :
          fileCalls' = [fileCalls EXCEPT ![s].pc = "ok", ![s].resp = Take(items, LoadLimit)]
    /\ UNCHANGED <<files, fileIsLoading, fileTable, fileHist, fileSent, fileDeleted,
                   viewVars, batch, settingsVars, convVars, appVars, sharedVars>>

\* table.updateItem succeeds: the members of the request are written into the row.
PatchFileRow(row, req) ==
    [row EXCEPT !.is_deleted = IF req.hasDeleted THEN "deleted" ELSE @,
                !.description = IF req.hasDescription THEN req.description ELSE @]

RemoteUpdateFile(s) ==
    /\ fileCalls[s].req.kind = "update"
    /\ fileCalls[s].pc = "await"
    /\ \E row \in fileTable :
          /\ row._id = fileCalls[s].req._id
          /\ fileTable' = (fileTable \ {row}) \cup {PatchFileRow(row, fileCalls[s].req)}
    /\ fileCalls' = [fileCalls EXCEPT ![s].pc = "ok"]
    /\ UNCHANGED <<files, fileIsLoading, fileHist, fileSent, fileDeleted,
                   viewVars, batch, settingsVars, convVars, appVars, sharedVars>>

RemoteRejectFile(s) ==
    /\ fileCalls[s].pc = "await"
    /\ fileCalls' = [fileCalls EXCEPT ![s].pc = "err"]
    /\ UNCHANGED <<files, fileIsLoading, fileTable, fileHist, fileSent, fileDeleted,
                   viewVars, batch, settingsVars, convVars, appVars, sharedVars>>

(***************************************************************************)
(* loadFiles()                                                             *)
(***************************************************************************)
loadFiles(s) ==
    /\ FreeSlotIn(fileCalls, s, MaxFileCalls)
    /\ fileIsLoading' = TRUE
    /\ fileCalls' = StartIn(fileCalls, s,
                            [FileIdle EXCEPT !.op = "loadFiles", !.pc = "await",
                                             !.req.kind = "get", !.after = fileDeleted])
    /\ ncalls' = ncalls + 1
    /\ UNCHANGED <<files, fileTable, fileHist, fileSent, fileDeleted,
                   viewVars, batch, settingsVars, convVars, appVars, clock, nextId>>

loadFilesResume(s) ==
    /\ fileCalls[s].op = "loadFiles"
    /\ \/ /\ fileCalls[s].pc = "ok"
          /\ files' = fileCalls[s].resp
          /\ FileSettle(s, "ok", LoadFilesPromise("ok"))
       \/ /\ fileCalls[s].pc = "err"
          /\ FileSettle(s, "fail", LoadFilesPromise("fail"))
          /\ UNCHANGED files
    /\ fileIsLoading' = FALSE
    /\ UNCHANGED <<fileTable, fileSent, fileDeleted, viewVars, batch, settingsVars, convVars, appVars, sharedVars>>

(***************************************************************************)
(* deleteFile(fileId): a soft delete, is_deleted := 'deleted'             *)
(***************************************************************************)
deleteFile(s, id) ==
    /\ FreeSlotIn(fileCalls, s, MaxFileCalls)
    /\ FindFile(files, id) # NoFile
    /\ LET req == [NoFileRequest EXCEPT !.kind = "update", !._uid = FindFile(files, id)._uid,
                                        !._id = FindFile(files, id)._id, !.hasDeleted = TRUE]
       IN /\ fileCalls' = StartIn(fileCalls, s,
                                  [FileIdle EXCEPT !.op = "deleteFile", !.pc = "await",
                                                   !.req = req])
          /\ fileSent' = fileSent \cup {[op |-> "deleteFile", _id |-> req._id,
                                         _uid |-> req._uid]}
    /\ ncalls' = ncalls + 1
    /\ UNCHANGED <<files, fileIsLoading, fileTable, fileHist, fileDeleted,
                   viewVars, batch, settingsVars, convVars, appVars, clock, nextId>>

deleteFileResume(s) ==
    /\ fileCalls[s].op = "deleteFile"
    /\ \/ /\ fileCalls[s].pc = "ok"
          /\ files' = RemoveFile(files, fileCalls[s].req._id)
          /\ fileDeleted' = fileDeleted \cup {fileCalls[s].req._id}
          /\ FileSettle(s, "ok", FileMutationPromise("ok"))
       \/ /\ fileCalls[s].pc = "err"
          /\ FileSettle(s, "fail", FileMutationPromise("fail"))
          /\ UNCHANGED <<files, fileDeleted>>
    /\ UNCHANGED <<fileIsLoading, fileTable, fileSent, viewVars, batch, settingsVars, convVars, appVars, sharedVars>>

(***************************************************************************)
(* updateFileDescription(fileId, description)                              *)
(***************************************************************************)
updateFileDescription(s, id, description) ==
    /\ FreeSlotIn(fileCalls, s, MaxFileCalls)
    /\ FindFile(files, id) # NoFile
    /\ LET req == [NoFileRequest EXCEPT !.kind = "update", !._uid = FindFile(files, id)._uid,
                                        !._id = FindFile(files, id)._id,
                                        !.hasDescription = TRUE, !.description = description]
       IN /\ fileCalls' = StartIn(fileCalls, s,
                                  [FileIdle EXCEPT !.op = "updateFileDescription",
                                                   !.pc = "await", !.req = req])
          /\ fileSent' = fileSent \cup {[op |-> "updateFileDescription", _id |-> req._id,
                                         _uid |-> req._uid]}
    /\ ncalls' = ncalls + 1
    /\ UNCHANGED <<files, fileIsLoading, fileTable, fileHist, fileDeleted,
                   viewVars, batch, settingsVars, convVars, appVars, clock, nextId>>

updateFileDescriptionResume(s) ==
    /\ fileCalls[s].op = "updateFileDescription"
    /\ \/ /\ fileCalls[s].pc = "ok"
          /\ files' = DescribeFile(files, fileCalls[s].req._id, fileCalls[s].req.description)
          /\ FileSettle(s, "ok", FileMutationPromise("ok"))
       \/ /\ fileCalls[s].pc = "err"
          /\ FileSettle(s, "fail", FileMutationPromise("fail"))
          /\ UNCHANGED files
    /\ UNCHANGED <<fileIsLoading, fileTable, fileSent, fileDeleted, viewVars, batch, settingsVars, convVars, appVars,
                   sharedVars>>

(***************************************************************************)
(* Text.  A string is read as the sequence of its characters.              *)
(***************************************************************************)
Chars(str) ==
    CASE str = "photo.png" -> <<"p", "h", "o", "t", "o", ".", "p", "n", "g">>
      [] str = "report.pdf" -> <<"r", "e", "p", "o", "r", "t", ".", "p", "d", "f">>
      [] str = "old.txt" -> <<"o", "l", "d", ".", "t", "x", "t">>
      [] str = "IMG.PNG" -> <<"I", "M", "G", ".", "P", "N", "G">>
      [] str = "notes" -> <<"n", "o", "t", "e", "s">>
      [] str = " " -> <<" ">>
      [] str = "PDF" -> <<"P", "D", "F">>
      [] str = "note" -> <<"n", "o", "t", "e">>
      [] str = "png" -> <<"p", "n", "g">>
      [] str = "image/png" -> <<"i", "m", "a", "g", "e", "/", "p", "n", "g">>
      [] str = "application/pdf" -> <<"a", "p", "p", "l", "i", "c", "a", "t", "i", "o", "n", "/", "p", "d", "f">>
      [] str = "text/plain" -> <<"t", "e", "x", "t", "/", "p", "l", "a", "i", "n">>
      [] str = "image/" -> <<"i", "m", "a", "g", "e", "/">>
      [] str = "video/" -> <<"v", "i", "d", "e", "o", "/">>
      [] str = "audio/" -> <<"a", "u", "d", "i", "o", "/">>
      [] str = "pdf" -> <<"p", "d", "f">>
      [] str = "document" -> <<"d", "o", "c", "u", "m", "e", "n", "t">>
      [] str = "text" -> <<"t", "e", "x", "t">>
      [] str = "word" -> <<"w", "o", "r", "d">>
      [] str = "excel" -> <<"e", "x", "c", "e", "l">>
      [] str = "powerpoint" -> <<"p", "o", "w", "e", "r", "p", "o", "i", "n", "t">>
      [] str = "a@x.co" -> <<"a", "@", "x", ".", "c", "o">>
      [] str = "bad" -> <<"b", "a", "d">>
      [] str = "a@x.co, bad" -> <<"a", "@", "x", ".", "c", "o", ",", " ", "b", "a", "d">>
      [] str = "b@y, a@x.co" -> <<"b", "@", "y", ",", " ", "a", "@", "x", ".", "c", "o">>
      [] str = "Hi" -> <<"H", "i">>
      [] str = "Hello" -> <<"H", "e", "l", "l", "o">>
      [] OTHER -> <<>>

\* String.prototype.toLowerCase, one character.
Lower(ch) ==
    CASE ch = "D" -> "d" [] ch = "F" -> "f" [] ch = "G" -> "g" [] ch = "I" -> "i"
      [] ch = "M" -> "m" [] ch = "N" -> "n" [] ch = "P" -> "p" [] OTHER -> ch

ToLowerCase(cs) == [i \in 1..Len(cs) |-> Lower(cs[i])]

\* hay.includes(needle)
Includes(hay, needle) ==
    \E i \in 0..(Len(hay) - Len(needle)) : SubSeq(hay, i + 1, i + Len(needle)) = needle

\* hay.startsWith(needle)
StartsWith(hay, needle) ==
    Len(needle) <= Len(hay) /\ SubSeq(hay, 1, Len(needle)) = needle

\* String.prototype.trim
RECURSIVE Trim(_)
Trim(cs) ==
    IF cs = <<>> THEN <<>>
    ELSE IF Head(cs) = " " THEN Trim(Tail(cs))
    ELSE IF cs[Len(cs)] = " " THEN Trim(SubSeq(cs, 1, Len(cs) - 1))
    ELSE cs

(***************************************************************************)
(* uploadFile(file, description, category): upload.uploadFile, then        *)
(* table.addItem, then loadFiles()                                         *)
(***************************************************************************)
getFileCategory(mimeType) ==
    LET m == Chars(mimeType)
    IN IF StartsWith(m, Chars("image/")) THEN "image"
       ELSE IF StartsWith(m, Chars("video/")) THEN "video"
       ELSE IF StartsWith(m, Chars("audio/")) THEN "audio"
       ELSE IF \/ Includes(m, Chars("pdf")) \/ Includes(m, Chars("document"))
               \/ Includes(m, Chars("text")) \/ Includes(m, Chars("word"))
               \/ Includes(m, Chars("excel")) \/ Includes(m, Chars("powerpoint"))
              THEN "document"
       ELSE "other"

\* The _id the remote service gives the row of the n-th call, also the link
\* upload.uploadFile returns for it.
UploadIds == <<"u1", "u2", "u3", "u4", "u5", "u6">>

\* const fileCategory = category || getFileCategory(file.type); fileData
FileData(id, file, category, t) ==
    FileRow(id, file.name, file.type, file.size,
            IF category # "" THEN category ELSE getFileCategory(file.type), t, "active")

uploadFile(s, file, category) ==
    /\ FreeSlotIn(fileCalls, s, MaxFileCalls)
    /\ fileIsLoading' = TRUE
    /\ fileCalls' = StartIn(fileCalls, s,
                            [FileIdle EXCEPT !.op = "uploadFile", !.pc = "await",
                                             !.phase = "upload", !.file = file,
                                             !.category = category, !.before = files,
                                             !.after = fileDeleted])
    /\ ncalls' = ncalls + 1
    /\ UNCHANGED <<files, fileTable, fileHist, fileSent, fileDeleted, viewVars,
                   settingsVars, convVars, appVars, clock, nextId>>

\* upload.uploadFile succeeds and returns a link.
RemoteUploadFile(s) ==
    /\ fileCalls[s].phase = "upload"
    /\ fileCalls[s].pc = "await"
    /\ fileCalls' = [fileCalls EXCEPT ![s].pc = "ok"]
    /\ UNCHANGED <<files, fileIsLoading, fileTable, fileHist, fileSent, fileDeleted,
                   viewVars, batch, settingsVars, convVars, appVars, sharedVars>>

\* table.addItem succeeds: the row is stored.
RemoteAddFile(s) ==
    /\ fileCalls[s].phase = "add"
    /\ fileCalls[s].pc = "await"
    /\ fileTable' = fileTable \cup {fileCalls[s].row}
    /\ fileCalls' = [fileCalls EXCEPT ![s].pc = "ok"]
    /\ UNCHANGED <<files, fileIsLoading, fileHist, fileSent, fileDeleted,
                   viewVars, batch, settingsVars, convVars, appVars, sharedVars>>

\* uploadFile rethrows the failure of upload.uploadFile (a rejection or an
\* error response) and of table.addItem; the failure of the getItems of the
\* loadFiles it awaits is caught in loadFiles, and uploadFile returns.
UploadPromise(phase, res) ==
    IF res = "fail" /\ phase \in {"upload", "add"} THEN "rejected" ELSE "resolved"

\* files.find(f => f.filename === file.name && f.file_url === uploadResponse.link)
\* || files[0]; NoFile for undefined.
RECURSIVE UploadedFile(_, _, _, _)
UploadedFile(fs, name, link, first) ==
    IF fs = <<>> THEN first
    ELSE IF fs[1].filename = name /\ fs[1].file_url = link THEN fs[1]
    ELSE UploadedFile(Tail(fs), name, link, first)

\* uploadFile returns to its caller: ret is the value its promise resolves with.
UploadSettle(s, res, promise, fs) ==
    /\ fileCalls' = [fileCalls EXCEPT ![s] = FileIdle]
    /\ fileHist' = [fileHist EXCEPT ![s] =
                      [id |-> fileCalls[s].id, op |-> fileCalls[s].op, res |-> res,
                       ov |-> fileCalls[s].ov, target |-> "", after |-> fileCalls[s].after,
                       promise |-> promise, name |-> fileCalls[s].file.name,
                       link |-> UploadIds[fileCalls[s].id],
                       ret |-> IF promise = "resolved"
                                 THEN UploadedFile(fs, fileCalls[s].file.name,
                                                   UploadIds[fileCalls[s].id],
                                                   IF fs = <<>> THEN NoFile ELSE fs[1])
                                 ELSE NoFile]]

uploadFileResume(s) ==
    /\ fileCalls[s].op = "uploadFile"
    /\ \/ /\ fileCalls[s].phase = "upload"
          /\ fileCalls[s].pc = "ok"
          /\ fileCalls' = [fileCalls EXCEPT
                             ![s].pc = "await", ![s].phase = "add",
                             ![s].row = FileData(UploadIds[fileCalls[s].id], fileCalls[s].file,
                                                 fileCalls[s].category, clock)]
          /\ clock' = clock + 1
          /\ UNCHANGED <<files, fileIsLoading, fileHist>>
       \/ /\ fileCalls[s].phase = "add"
          /\ fileCalls[s].pc = "ok"
          /\ fileIsLoading' = TRUE
          /\ fileCalls' = [fileCalls EXCEPT ![s].pc = "await", ![s].phase = "load",
                                            ![s].req.kind = "get"]
          /\ UNCHANGED <<files, fileHist, clock>>
       \/ /\ fileCalls[s].phase = "load"
          /\ fileCalls[s].pc = "ok"
          /\ files' = fileCalls[s].resp
          /\ fileIsLoading' = FALSE
          /\ UploadSettle(s, "ok", UploadPromise("load", "ok"), files')
          /\ UNCHANGED clock
       \/ /\ fileCalls[s].pc = "err"
          /\ fileIsLoading' = FALSE
          /\ UploadSettle(s, "fail", UploadPromise(fileCalls[s].phase, "fail"), files)
          /\ UNCHANGED <<files, clock>>
    /\ UNCHANGED <<fileTable, fileSent, fileDeleted, viewVars, batch, settingsVars, convVars, appVars, ncalls,
                   nextId>>

(***************************************************************************)
(* handleFileUpload of the file manager page: the files of the input are   *)
(* uploaded one after the other inside one try block                       *)
(***************************************************************************)
\* No handleFileUpload has run.
NoBatch == [pc |-> "idle", files |-> <<>>, next |-> 0, call |-> 0, toast |-> ""]

\* if (!files || files.length === 0) return; the loop awaits uploadFile(file)
\* for the first file.
handleFileUpload(s, fs) ==
    /\ batch.pc # "await"
    /\ fs # <<>>
    /\ uploadFile(s, fs[1], "")
    /\ batch' = [pc |-> "await", files |-> fs, next |-> 1, call |-> ncalls + 1, toast |-> ""]

\* The uploadFile the handler awaits has settled.
BatchReady == batch.pc = "await" /\ \E t \in Slots : fileHist[t].id = batch.call

\* What the handler does once the awaited uploadFile has settled: the next
\* turn of the loop, the toast after the loop, or the catch block.
BatchStep(promise, next, len) ==
    IF promise = "rejected" THEN "catch"
    ELSE IF next < len THEN "next"
    ELSE "end"

handleFileUploadResume ==
    /\ batch.pc = "await"
    /\ \E t \in Slots :
          /\ fileHist[t].id = batch.call
          /\ LET step == BatchStep(fileHist[t].promise, batch.next, Len(batch.files))
             IN \/ /\ step = "next"
                   /\ \E s \in Slots : uploadFile(s, batch.files[batch.next + 1], "")
                   /\ batch' = [batch EXCEPT !.next = @ + 1, !.call = ncalls + 1]
                \/ /\ step # "next"
                   /\ batch' = [batch EXCEPT
                                  !.pc = "done",
                                  !.toast = IF step = "end" THEN "Upload successful"
                                            ELSE "Upload failed"]
                   /\ UNCHANGED <<files, fileIsLoading, fileTable, fileCalls, fileHist, fileSent,
                                  fileDeleted, viewVars, settingsVars, convVars, appVars,
                                  sharedVars>>

(***************************************************************************)
(* The derived views: setSelectedCategory, setSearchQuery,                 *)
(* getFilteredFiles, getTotalSize, getCategoryCounts                       *)
(***************************************************************************)
setSelectedCategory(category) ==
    /\ selectedCategory' = category
    /\ UNCHANGED <<files, fileIsLoading, fileTable, fileCalls, fileHist, fileSent, fileDeleted,
                   searchQuery, batch, settingsVars, convVars, appVars, sharedVars>>

setSearchQuery(query) ==
    /\ searchQuery' = query
    /\ UNCHANGED <<files, fileIsLoading, fileTable, fileCalls, fileHist, fileSent, fileDeleted,
                   selectedCategory, batch, settingsVars, convVars, appVars, sharedVars>>

\* filtered.filter(f => f.category === selectedCategory)
RECURSIVE FilterByCategory(_, _)
FilterByCategory(fs, category) ==
    IF fs = <<>> THEN <<>>
    ELSE IF fs[1].category = category THEN <<fs[1]>> \o FilterByCategory(Tail(fs), category)
    ELSE FilterByCategory(Tail(fs), category)

\* f.filename.toLowerCase().includes(query) ||
\* (f.description && f.description.toLowerCase().includes(query))
MatchesQuery(f, query) ==
    \/ Includes(ToLowerCase(Chars(f.filename)), query)
    \/ /\ f.description # ""
       /\ Includes(ToLowerCase(Chars(f.description)), query)

RECURSIVE FilterByQuery(_, _)
FilterByQuery(fs, query) ==
    IF fs = <<>> THEN <<>>
    ELSE IF MatchesQuery(fs[1], query) THEN <<fs[1]>> \o FilterByQuery(Tail(fs), query)
    ELSE FilterByQuery(Tail(fs), query)

\* A category filter that is applied whatever the selection.
CategoryApplies_Always(category) == TRUE

\* if (selectedCategory !== 'all')
CategoryApplies(category) == category # "all"

\* A text filter applied to every query that is not the empty string.
QueryApplies_NonEmpty(query) == query # ""

\* if (searchQuery.trim())
QueryApplies(query) == Trim(Chars(query)) # <<>>

\* getFilteredFiles over the files fs with the selection (category, query).
FilteredFiles(fs, category, query) ==
    LET byCategory == IF CategoryApplies(category) THEN FilterByCategory(fs, category)
                      ELSE fs
    IN IF QueryApplies(query)
         THEN FilterByQuery(byCategory, ToLowerCase(Chars(query)))
         ELSE byCategory

getFilteredFiles == FilteredFiles(files, selectedCategory, searchQuery)

\* files.reduce((total, file) => total + file.file_size, 0)
RECURSIVE TotalSize(_)
TotalSize(fs) == IF fs = <<>> THEN 0 ELSE fs[1].file_size + TotalSize(Tail(fs))

getTotalSize == TotalSize(files)

\* The number NaN (undefined++).
NaN == -1

\* counts[file.category]++
CountFile(counts, f) ==
    IF f.category \in DOMAIN counts
      THEN [counts EXCEPT ![f.category] = IF @ = NaN THEN NaN ELSE @ + 1]
      ELSE SetKey(counts, f.category, NaN)

RECURSIVE CountFiles(_, _)
CountFiles(counts, fs) ==
    IF fs = <<>> THEN counts ELSE CountFiles(CountFile(counts, fs[1]), Tail(fs))

\* getCategoryCounts over the files fs.
CategoryCounts(fs) ==
    CountFiles([all |-> Len(fs), image |-> 0, document |-> 0, audio |-> 0, video |-> 0,
                other |-> 0], fs)

getCategoryCounts == CategoryCounts(files)

(***************************************************************************)
(* Inputs and initial state of the file store                              *)
(***************************************************************************)
\* The File objects the file manager uploads.
ReportPdf == [name |-> "report.pdf", type |-> "application/pdf", size |-> 250]

ImgPng == [name |-> "IMG.PNG", type |-> "image/png", size |-> 40]

\* The (file, category) arguments of uploadFile; "" is no category argument.
UploadInputs == {<<ReportPdf, "">>, <<ImgPng, "">>, <<ReportPdf, "documents">>}

\* The entries of the category list and the texts typed in the search box.
CategoryChoices == {"all", "image", "document"}

QueryChoices == {"", " ", "PDF", "note", "png"}

\* The rows of the remote files table when the session starts.
SeedFiles ==
    {FileRow("f1", "photo.png", "image/png", 100, "image", 1, "active"),
     FileRow("f2", "report.pdf", "application/pdf", 250, "document", 2, "active"),
     FileRow("f3", "old.txt", "text/plain", 10, "document", 1, "deleted")}

FileIds == {row._id : row \in SeedFiles}

FileInit ==
    /\ files = <<>>
    /\ fileIsLoading = FALSE
    /\ fileTable = SeedFiles
    /\ fileCalls = [s \in Slots |-> FileIdle]
    /\ fileHist = [s \in Slots |-> NoFileHist]
    /\ fileSent = {}
    /\ fileDeleted = {}
    /\ selectedCategory = "all"
    /\ searchQuery = ""
    /\ batch = NoBatch

(***************************************************************************)
(* Email store.  A draft is [id, to, cc, bcc, subject, text, scheduledAt]; *)
(* an address is the sequence of its characters; scheduledAt "" is         *)
(* undefined.                                                              *)
(***************************************************************************)
NoDraft == [id |-> <<>>, to |-> <<>>, cc |-> <<>>, bcc |-> <<>>, subject |-> "", text |-> "",
            scheduledAt |-> ""]

\* null, as the value sendEmail returns.
NullId == "null"

EmailIdle == [op |-> "idle", pc |-> "idle", id |-> 0, ov |-> {}, draft |-> NoDraft, resp |-> ""]

NoEmailHist ==
    [id |-> 0, op |-> "none", res |-> "none", ov |-> {}, draft |-> NoDraft, ret |-> NullId,
     before |-> <<>>, draftsBefore |-> <<>>]

\* [^\s@]
AddressChar(ch) == ch \notin {" ", "@"}

AddressChars(cs) == cs # <<>> /\ \A i \in 1..Len(cs) : AddressChar(cs[i])

\* /^[^\s@]+@[^\s@]+\.[^\s@]+$/.test(email.trim())
validateEmail(email) ==
    LET cs == Trim(email)
    IN \E i, j \in 1..Len(cs) :
          /\ i < j
          /\ cs[i] = "@"
          /\ cs[j] = "."
          /\ AddressChars(SubSeq(cs, 1, i - 1))
          /\ AddressChars(SubSeq(cs, i + 1, j - 1))
          /\ AddressChars(SubSeq(cs, j + 1, Len(cs)))

\* emails.split(/[,;\n]/)
RECURSIVE SplitList(_, _)
SplitList(cs, part) ==
    IF cs = <<>> THEN <<part>>
    ELSE IF Head(cs) \in {",", ";", "\n"} THEN <<part>> \o SplitList(Tail(cs), <<>>)
    ELSE SplitList(Tail(cs), Append(part, Head(cs)))

\* .filter(email => email.length > 0).filter((email, index, arr) => arr.indexOf(email) === index)
RECURSIVE NonEmptyDistinct(_, _)
NonEmptyDistinct(parts, seen) ==
    IF parts = <<>> THEN <<>>
    ELSE IF Head(parts) = <<>> \/ Head(parts) \in seen THEN NonEmptyDistinct(Tail(parts), seen)
    ELSE <<Head(parts)>> \o NonEmptyDistinct(Tail(parts), seen \cup {Head(parts)})

parseEmailList(emails) ==
    LET parts == SplitList(emails, <<>>)
    IN NonEmptyDistinct([i \in 1..Len(parts) |-> Trim(parts[i])], {})

\* The ids of the emails the n-th call's email.sendEmail returns.
EmailIds == <<"e1", "e2", "e3", "e4", "e5", "e6">>

\* saveDraft(draft): the draft is appended under a fresh id.
saveDraft(form) ==
    /\ Len(drafts) < MaxDrafts
    /\ drafts' = Append(drafts, [id |-> <<"draft", clock>>,
                                 to |-> parseEmailList(Chars(form.to)),
                                 cc |-> parseEmailList(Chars(form.cc)),
                                 bcc |-> parseEmailList(Chars(form.bcc)),
                                 subject |-> form.subject, text |-> form.text,
                                 scheduledAt |-> form.scheduledAt])
    /\ clock' = clock + 1
    /\ UNCHANGED <<sentEmails, emailIsLoading, emailCalls, emailHist, emailOut, authVars,
                   settingsVars, convVars, fileVars, ncalls, nextId>>

\* const emailOptions = {...}
EmailOptions(draft) ==
    [to |-> draft.to, cc |-> draft.cc, bcc |-> draft.bcc, subject |-> draft.subject,
     text |-> draft.text, scheduled_at |-> draft.scheduledAt]

sendEmail(s, draft) ==
    /\ FreeSlotIn(emailCalls, s, MaxEmailCalls)
    /\ emailIsLoading' = TRUE
    /\ emailCalls' = StartIn(emailCalls, s,
                             [EmailIdle EXCEPT !.op = "sendEmail", !.pc = "await",
                                               !.draft = draft])
    /\ emailOut' = emailOut \cup {EmailOptions(draft)}
    /\ ncalls' = ncalls + 1
    /\ UNCHANGED <<drafts, sentEmails, emailHist, authVars, settingsVars, convVars, fileVars,
                   clock, nextId>>

\* email.sendEmail succeeds and returns the id of the email.
RemoteSendEmail(s) ==
    /\ emailCalls[s].pc = "await"
    /\ emailCalls' = [emailCalls EXCEPT ![s].pc = "ok", ![s].resp = EmailIds[emailCalls[s].id]]
    /\ UNCHANGED <<drafts, sentEmails, emailIsLoading, emailHist, emailOut, authVars,
                   settingsVars, convVars, fileVars, sharedVars>>

RemoteRejectEmail(s) ==
    /\ emailCalls[s].pc = "await"
    /\ emailCalls' = [emailCalls EXCEPT ![s].pc = "err"]
    /\ UNCHANGED <<drafts, sentEmails, emailIsLoading, emailHist, emailOut, authVars,
                   settingsVars, convVars, fileVars, sharedVars>>

\* status: draft.scheduledAt ? 'scheduled' : 'sent'; 'failed' in the catch block
SentStatus(res, scheduledAt) ==
    IF res = "fail" THEN "failed"
    ELSE IF scheduledAt # "" THEN "scheduled"
    ELSE "sent"

SentEmail(draft, emailId, res, t) ==
    [id |-> <<"sent", t>>, emailId |-> emailId, to |-> draft.to, subject |-> draft.subject,
     sentAt |-> t, status |-> SentStatus(res, draft.scheduledAt)]

\* state.drafts.filter(d => d.id !== draft.id)
RECURSIVE RemoveDraft(_, _)
RemoveDraft(ds, id) ==
    IF ds = <<>> THEN <<>>
    ELSE IF Head(ds).id = id THEN RemoveDraft(Tail(ds), id)
    ELSE <<Head(ds)>> \o RemoveDraft(Tail(ds), id)

\* A catch block that removes the draft as the try block does.
DraftsAfter_AlwaysRemove(ds, id, res) == RemoveDraft(ds, id)

\* The drafts after the call: the try block removes the draft, the catch
\* block leaves the drafts alone.
DraftsAfter(ds, id, res) == IF res = "ok" THEN RemoveDraft(ds, id) ELSE ds

\* A store that leaves the finally block out of the failure path.
LoadingAfterSend_OnlyOnSuccess(res) == res # "ok"

\* finally { set({ isLoading: false }) }
LoadingAfterSend(res) == FALSE

EmailSettle(s, res, ret) ==
    /\ emailCalls' = [emailCalls EXCEPT ![s] = EmailIdle]
    /\ emailHist' = [emailHist EXCEPT ![s] = [id |-> emailCalls[s].id, op |-> "sendEmail",
                                              res |-> res, ov |-> emailCalls[s].ov,
                                              draft |-> emailCalls[s].draft, ret |-> ret,
                                              before |-> sentEmails,
                                              draftsBefore |-> drafts]]

sendEmailResume(s) ==
    /\ emailCalls[s].op = "sendEmail"
    /\ emailCalls[s].pc \in {"ok", "err"}
    /\ LET res == IF emailCalls[s].pc = "ok" THEN "ok" ELSE "fail"
           emailId == IF res = "ok" THEN emailCalls[s].resp ELSE ""
       IN /\ sentEmails' = <<SentEmail(emailCalls[s].draft, emailId, res, clock)>> \o sentEmails
          /\ drafts' = DraftsAfter(drafts, emailCalls[s].draft.id, res)
          /\ EmailSettle(s, res, IF res = "ok" THEN emailId ELSE NullId)
    /\ emailIsLoading' = LoadingAfterSend(IF emailCalls[s].pc = "ok" THEN "ok" ELSE "fail")
    /\ clock' = clock + 1
    /\ UNCHANGED <<emailOut, authVars, settingsVars, convVars, fileVars, ncalls, nextId>>

(***************************************************************************)
(* handleSendEmail of the compose dialog                                   *)
(***************************************************************************)
\* parsedTo.length > 0 && parsedTo.every(email => isValidEmail(email))
hasValidRecipients(form) ==
    LET parsedTo == parseEmailList(Chars(form.to))
    IN parsedTo # <<>> /\ \A i \in 1..Len(parsedTo) : validateEmail(parsedTo[i])

\* hasValidRecipients && subject.trim() && hasContent
canSend(form) ==
    /\ hasValidRecipients(form)
    /\ Trim(Chars(form.subject)) # <<>>
    /\ Trim(Chars(form.text)) # <<>>

\* const draftData: EmailDraft = {...}; currentDraftId <<>> is null.
DraftData(form, currentDraftId, t) ==
    [id |-> IF currentDraftId # <<>> THEN currentDraftId ELSE <<"temp", t>>,
     to |-> parseEmailList(Chars(form.to)),
     cc |-> parseEmailList(Chars(form.cc)),
     bcc |-> parseEmailList(Chars(form.bcc)),
     subject |-> form.subject, text |-> form.text, scheduledAt |-> form.scheduledAt]

handleSendEmail(s, form, currentDraftId) ==
    IF canSend(form)
      THEN sendEmail(s, DraftData(form, currentDraftId, clock))
      ELSE /\ FreeSlotIn(emailCalls, s, MaxEmailCalls)
           /\ ncalls' = ncalls + 1
           /\ emailHist' = [emailHist EXCEPT ![s] = [NoEmailHist EXCEPT
                                                      !.id = ncalls + 1,
                                                      !.op = "handleSendEmail",
                                                      !.res = "invalid",
                                                      !.before = sentEmails,
                                                      !.draftsBefore = drafts]]
           /\ UNCHANGED <<drafts, sentEmails, emailIsLoading, emailCalls, emailOut, authVars,
                          settingsVars, convVars, fileVars, clock, nextId>>

\* The contents of the compose dialog.
GoodForm == [to |-> "a@x.co", cc |-> "", bcc |-> "", subject |-> "Hi", text |-> "Hello",
             scheduledAt |-> ""]

ScheduledForm == [GoodForm EXCEPT !.scheduledAt = "2026-01-01T09:00"]

BadToForm == [GoodForm EXCEPT !.to = "a@x.co, bad"]

BadCcForm == [GoodForm EXCEPT !.cc = "bad"]

BadBccForm == [GoodForm EXCEPT !.bcc = "b@y, a@x.co"]

NoSubjectForm == [GoodForm EXCEPT !.subject = " "]

Forms == {GoodForm, ScheduledForm, BadToForm, BadCcForm, BadBccForm, NoSubjectForm}

EmailInit ==
    /\ drafts = <<>>
    /\ sentEmails = <<>>
    /\ emailIsLoading = FALSE
    /\ emailCalls = [s \in Slots |-> EmailIdle]
    /\ emailHist = [s \in Slots |-> NoEmailHist]
    /\ emailOut = {}

(***************************************************************************)
(* Auth store                                                              *)
(***************************************************************************)
\* null, as the value of user.
NoUser == [uid |-> "", email |-> ""]

\* response.user of auth.verifyOTP
UserOf(email) == [uid |-> "uid-1", email |-> email]

AuthIdle == [op |-> "idle", pc |-> "idle", id |-> 0, ov |-> {}, email |-> ""]

NoAuthHist == [id |-> 0, op |-> "none", res |-> "none", ov |-> {}, promise |-> "none"]

AuthSettle(s, res, promise) ==
    /\ authCalls' = [authCalls EXCEPT ![s] = AuthIdle]
    /\ authHist' = [authHist EXCEPT ![s] = [id |-> authCalls[s].id, op |-> authCalls[s].op,
                                            res |-> res, ov |-> authCalls[s].ov,
                                            promise |-> promise]]

\* The remote auth service answers the call of slot s.
RemoteAuth(s) ==
    /\ authCalls[s].pc = "await"
    /\ authCalls' = [authCalls EXCEPT ![s].pc = "ok"]
    /\ UNCHANGED <<user, isAuthenticated, authIsLoading, authError, authHist, emailVars,
                   settingsVars, convVars, fileVars, sharedVars>>

RemoteRejectAuth(s) ==
    /\ authCalls[s].pc = "await"
    /\ authCalls' = [authCalls EXCEPT ![s].pc = "err"]
    /\ UNCHANGED <<user, isAuthenticated, authIsLoading, authError, authHist, emailVars,
                   settingsVars, convVars, fileVars, sharedVars>>

\* set({ isLoading: true, error: null }) and the remote call
AuthBegin(s, op, email) ==
    /\ FreeSlotIn(authCalls, s, MaxAuthCalls)
    /\ authCalls' = StartIn(authCalls, s,
                            [AuthIdle EXCEPT !.op = op, !.pc = "await", !.email = email])
    /\ authIsLoading' = TRUE
    /\ ncalls' = ncalls + 1

sendOTP(s, email) ==
    /\ AuthBegin(s, "sendOTP", email)
    /\ authError' = ""
    /\ UNCHANGED <<user, isAuthenticated, authHist, emailVars, settingsVars, convVars,
                   fileVars, clock, nextId>>

sendOTPResume(s) ==
    /\ authCalls[s].op = "sendOTP"
    /\ \/ /\ authCalls[s].pc = "ok"
          /\ AuthSettle(s, "ok", "resolved")
          /\ UNCHANGED authError
       \/ /\ authCalls[s].pc = "err"
          /\ authError' = "Failed to send OTP"
          /\ AuthSettle(s, "fail", "rejected")
    /\ authIsLoading' = FALSE
    /\ UNCHANGED <<user, isAuthenticated, emailVars, settingsVars, convVars, fileVars,
                   sharedVars>>

verifyOTP(s, email) ==
    /\ AuthBegin(s, "verifyOTP", email)
    /\ authError' = ""
    /\ UNCHANGED <<user, isAuthenticated, authHist, emailVars, settingsVars, convVars,
                   fileVars, clock, nextId>>

verifyOTPResume(s) ==
    /\ authCalls[s].op = "verifyOTP"
    /\ \/ /\ authCalls[s].pc = "ok"
          /\ user' = UserOf(authCalls[s].email)
          /\ isAuthenticated' = TRUE
          /\ AuthSettle(s, "ok", "resolved")
          /\ UNCHANGED authError
       \/ /\ authCalls[s].pc = "err"
          /\ authError' = "Invalid verification code"
          /\ AuthSettle(s, "fail", "rejected")
          /\ UNCHANGED <<user, isAuthenticated>>
    /\ authIsLoading' = FALSE
    /\ UNCHANGED <<emailVars, settingsVars, convVars, fileVars, sharedVars>>

\* set({ isLoading: true })
logout(s) ==
    /\ AuthBegin(s, "logout", "")
    /\ UNCHANGED <<user, isAuthenticated, authError, authHist, emailVars, settingsVars,
                   convVars, fileVars, clock, nextId>>

\* A catch block that leaves the local state alone.
UserAfterLogout_KeepOnFailure(res, u) == IF res = "fail" THEN u ELSE NoUser

\* The user after logout has settled: null in the try block and in the catch
\* block alike.
UserAfterLogout(res, u) == NoUser

logoutResume(s) ==
    /\ authCalls[s].op = "logout"
    /\ authCalls[s].pc \in {"ok", "err"}
    /\ LET res == IF authCalls[s].pc = "ok" THEN "ok" ELSE "fail"
       IN /\ user' = UserAfterLogout(res, user)
          /\ AuthSettle(s, res, "resolved")
    /\ isAuthenticated' = FALSE
    /\ authIsLoading' = FALSE
    /\ authError' = ""
    /\ UNCHANGED <<emailVars, settingsVars, convVars, fileVars, sharedVars>>

authClearError ==
    /\ authError' = ""
    /\ UNCHANGED <<user, isAuthenticated, authIsLoading, authCalls, authHist, emailVars,
                   settingsVars, convVars, fileVars, sharedVars>>

AuthInit ==
    /\ user = NoUser
    /\ isAuthenticated = FALSE
    /\ authIsLoading = FALSE
    /\ authError = ""
    /\ authCalls = [s \in Slots |-> AuthIdle]
    /\ authHist = [s \in Slots |-> NoAuthHist]

AppInit == EmailInit /\ AuthInit

(***************************************************************************)
(*                            Specifications                               *)
(***************************************************************************)
(***************************************************************************)
(* The settings store under concurrent calls                               *)
(***************************************************************************)
InitSettings ==
    /\ SettingsInit
    /\ prefTable = {}
    /\ ConvInit
    /\ FileInit
    /\ AppInit

NextSettings ==
    \/ \E s \in Slots, a \in UpdateInputs : updatePreference(s, a[1], a[2], a[3])
    \/ \E s \in Slots : updatePreferenceResume(s)
    \/ \E s \in Slots, a \in CategoryInputs : updateCategory(s, a[1], a[2])
    \/ \E s \in Slots : updateCategoryResume(s)
    \/ \E s \in Slots, data \in {ForeignPayload} \cup InvalidPayloads :
          importPreferences(s, data)
    \/ \E s \in Slots : importPreferencesResume(s)
    \/ \E s \in Slots : syncPreferences(s)
    \/ \E s \in Slots : syncPreferencesResume(s)
    \/ \E s \in Slots : RemoteAddItem(s)
    \/ \E s \in Slots : RemoteGetItems(s)
    \/ \E s \in Slots : RemoteReject(s)

SpecSettings == InitSettings /\ [][NextSettings]_vars

(***************************************************************************)
(* syncPreferences over the tables a session may find                      *)
(***************************************************************************)
InitSync ==
    /\ SettingsInit
    /\ prefTable \in {T \in SUBSET SeedRows : Cardinality(T) <= MaxSeed}
    /\ ConvInit
    /\ FileInit
    /\ AppInit

NextSync ==
    \/ \E s \in Slots : syncPreferences(s)
    \/ \E s \in Slots : syncPreferencesResume(s)
    \/ \E s \in Slots : RemoteGetItems(s)
    \/ \E s \in Slots : RemoteReject(s)

SpecSync == InitSync /\ [][NextSync]_vars

(***************************************************************************)
(* The settings store with resets: the page syncs on mount, then the user  *)
(* changes fields and resets                                               *)
(***************************************************************************)
\* The rows a session with resets starts from: none, a stored value, a row of
\* a key the client does not know.
ResetSeedRows == {r \in SeedRows : r.id \in {101, 107}}

\* The category handleReset is called with.
ResetInputs == {"theme"}

InitReset ==
    /\ SettingsInit
    /\ prefTable \in SUBSET ResetSeedRows
    /\ ConvInit
    /\ FileInit
    /\ AppInit

NextReset ==
    \/ \E s \in Slots, c \in ResetInputs : resetCategory(s, c)
    \/ \E s \in Slots : resetCategoryResume(s)
    \/ \E s \in Slots : updatePreference(s, "theme", "mode", "light")
    \/ \E s \in Slots : updatePreferenceResume(s)
    \/ \E s \in Slots : syncPreferences(s)
    \/ \E s \in Slots : syncPreferencesResume(s)
    \/ \E s \in Slots : RemoteAddItem(s)
    \/ \E s \in Slots : RemoteGetItems(s)
    \/ \E s \in Slots : RemoteDeleteItem(s)
    \/ \E s \in Slots : RemoteReject(s)

SpecReset == InitReset /\ [][NextReset]_vars

(***************************************************************************)
(* Export and import of the preferences: the settings page issues one call *)
(* at a time, and every addItem of the session succeeds.                   *)
(***************************************************************************)
NextImport ==
    \/ \E s \in Slots : \E data \in ImportInputs :
          Active = {} /\ importPreferences(s, data)
    \/ \E s \in Slots : importPreferencesResume(s)
    \/ \E s \in Slots : Active = {} /\ updatePreference(s, "theme", "mode", "light")
    \/ \E s \in Slots : updatePreferenceResume(s)
    \/ \E s \in Slots : RemoteAddItem(s)

SpecImport == InitSettings /\ [][NextImport]_vars

(***************************************************************************)
(* The conversation store under concurrent calls                           *)
(***************************************************************************)
InitConv ==
    /\ SettingsInit
    /\ prefTable = {}
    /\ ConvInit
    /\ FileInit
    /\ AppInit

NextConv ==
    \/ \E s \in Slots : ncalls < MaxBrowseCalls /\ loadConversations(s)
    \/ \E s \in Slots : loadConversationsResume(s)
    \/ \E id \in ConvIds : selectConversation(id)
    \/ clearError
    \/ \E s \in Slots, role \in {"user", "assistant"} :
          ncalls < MaxBrowseCalls /\ addMessage(s, role)
    \/ \E s \in Slots : addMessageResume(s)
    \/ \E s \in Slots, id \in ConvIds :
          ncalls < MaxBrowseCalls /\ updateConversation(s, id, "Renamed")
    \/ \E s \in Slots : updateConversationResume(s)
    \/ \E s \in Slots, id \in ConvIds :
          ncalls < MaxBrowseCalls /\ deleteConversation(s, id)
    \/ \E s \in Slots : deleteConversationResume(s)
    \/ \E s \in Slots : RemoteGetConversations(s)
    \/ \E s \in Slots : RemoteUpdateConversation(s)
    \/ \E s \in Slots : RemoteDeleteConversation(s)
    \/ \E s \in Slots : RemoteRejectConversation(s)

SpecConv == InitConv /\ [][NextConv]_vars

(***************************************************************************)
(* The chat page on one conversation: the list has been loaded and the     *)
(* empty conversation c1 selected; messages are added to it, the list is   *)
(* reloaded, conversations are deleted.                                    *)
(***************************************************************************)
InitChat ==
    /\ SettingsInit
    /\ prefTable = {}
    /\ FileInit
    /\ AppInit
    /\ \E items \in ByUpdatedAtDesc(SeedConversations) :
          conversations = [i \in 1..Len(items) |-> ToConversation(items[i])]
    /\ currentConversation = FindConversation(conversations, "c1")
    /\ convIsLoading = FALSE
    /\ convError = ""
    /\ convTable = SeedConversations
    /\ convCalls = [s \in Slots |-> ConvIdle]
    /\ convHist = [s \in Slots |-> NoConvHist]
    /\ convSent = {}
    /\ convDeleted = {}

NextChat ==
    \/ \E s \in Slots : loadConversations(s)
    \/ \E s \in Slots : loadConversationsResume(s)
    \/ \E s \in Slots, role \in {"user", "assistant"} : addMessage(s, role)
    \/ \E s \in Slots : addMessageResume(s)
    \/ \E s \in Slots, id \in ConvIds : deleteConversation(s, id)
    \/ \E s \in Slots : deleteConversationResume(s)
    \/ \E s \in Slots : RemoteGetConversations(s)
    \/ \E s \in Slots : RemoteUpdateConversation(s)
    \/ \E s \in Slots : RemoteDeleteConversation(s)
    \/ \E s \in Slots : RemoteRejectConversation(s)

SpecChat == InitChat /\ [][NextChat]_vars

(***************************************************************************)
(* The file store under concurrent calls                                   *)
(***************************************************************************)
InitFile ==
    /\ SettingsInit
    /\ prefTable = {}
    /\ ConvInit
    /\ FileInit
    /\ AppInit

NextFile ==
    \/ \E s \in Slots : loadFiles(s)
    \/ \E s \in Slots : loadFilesResume(s)
    \/ \E s \in Slots, id \in FileIds : deleteFile(s, id)
    \/ \E s \in Slots : deleteFileResume(s)
    \/ \E s \in Slots, id \in FileIds : updateFileDescription(s, id, "notes")
    \/ \E s \in Slots : updateFileDescriptionResume(s)
    \/ \E s \in Slots : RemoteGetFiles(s)
    \/ \E s \in Slots : RemoteUpdateFile(s)
    \/ \E s \in Slots : RemoteRejectFile(s)

SpecFile == InitFile /\ [][NextFile]_vars

(***************************************************************************)
(* The file manager: the selection and the search over the cached files;   *)
(* the page issues one call at a time.                                     *)
(***************************************************************************)
\* The file calls in flight.
FileActive == {s \in Slots : fileCalls[s].op # "idle"}

NextViews ==
    \/ \E s \in Slots : FileActive = {} /\ loadFiles(s)
    \/ \E s \in Slots : loadFilesResume(s)
    \/ \E s \in Slots : FileActive = {} /\ uploadFile(s, ImgPng, "") /\ UNCHANGED batch
    \/ \E s \in Slots : uploadFileResume(s)
    \/ \E s \in Slots, id \in FileIds :
          FileActive = {} /\ updateFileDescription(s, id, "notes")
    \/ \E s \in Slots : updateFileDescriptionResume(s)
    \/ \E category \in CategoryChoices : setSelectedCategory(category)
    \/ \E query \in QueryChoices : setSearchQuery(query)
    \/ \E s \in Slots : RemoteGetFiles(s)
    \/ \E s \in Slots : RemoteUploadFile(s)
    \/ \E s \in Slots : RemoteAddFile(s)
    \/ \E s \in Slots : RemoteUpdateFile(s)
    \/ \E s \in Slots : RemoteRejectFile(s)

SpecViews == InitFile /\ [][NextViews]_vars

(***************************************************************************)
(* The file manager: uploads and the aggregates over the cached files      *)
(***************************************************************************)
NextUpload ==
    \/ \E s \in Slots : loadFiles(s)
    \/ \E s \in Slots : loadFilesResume(s)
    \/ \E s \in Slots, u \in UploadInputs : uploadFile(s, u[1], u[2]) /\ UNCHANGED batch
    \/ \E s \in Slots : uploadFileResume(s)
    \/ \E s \in Slots : RemoteGetFiles(s)
    \/ \E s \in Slots : RemoteUploadFile(s)
    \/ \E s \in Slots : RemoteAddFile(s)
    \/ \E s \in Slots : RemoteRejectFile(s)

SpecUpload == InitFile /\ [][NextUpload]_vars

(***************************************************************************)
(* The conversation store and the file store side by side                  *)
(***************************************************************************)
NextStores == NextConv \/ NextFile

SpecStores == InitFile /\ [][NextStores]_vars

(***************************************************************************)
(* The file manager: a multi-file upload, with loads of the list           *)
(***************************************************************************)
\* The files chosen in the file input.
BatchInputs == {<<ReportPdf>>, <<ReportPdf, ImgPng>>}

NextBatch ==
    \/ \E s \in Slots : ~BatchReady /\ loadFiles(s)
    \/ \E s \in Slots : loadFilesResume(s)
    \/ \E s \in Slots, fs \in BatchInputs : handleFileUpload(s, fs)
    \/ handleFileUploadResume
    \/ \E s \in Slots : uploadFileResume(s)
    \/ \E s \in Slots : RemoteGetFiles(s)
    \/ \E s \in Slots : RemoteUploadFile(s)
    \/ \E s \in Slots : RemoteAddFile(s)
    \/ \E s \in Slots : RemoteRejectFile(s)

SpecBatch == InitFile /\ [][NextBatch]_vars

(***************************************************************************)
(* Every store in one session: the loads, an upload, a sync and a send     *)
(***************************************************************************)
NextIdle ==
    \/ \E s \in Slots : ncalls < MaxIdleCalls /\ loadConversations(s)
    \/ \E s \in Slots : loadConversationsResume(s)
    \/ \E s \in Slots : ncalls < MaxIdleCalls /\ loadFiles(s)
    \/ \E s \in Slots : loadFilesResume(s)
    \/ \E s \in Slots : ncalls < MaxIdleCalls /\ uploadFile(s, ImgPng, "") /\ UNCHANGED batch
    \/ \E s \in Slots : uploadFileResume(s)
    \/ \E s \in Slots : ncalls < MaxIdleCalls /\ syncPreferences(s)
    \/ \E s \in Slots : syncPreferencesResume(s)
    \/ \E s \in Slots, form \in {GoodForm, ScheduledForm} :
          ncalls < MaxIdleCalls /\ sendEmail(s, DraftData(form, <<>>, clock))
    \/ \E s \in Slots : sendEmailResume(s)
    \/ \E s \in Slots : RemoteGetConversations(s)
    \/ \E s \in Slots : RemoteRejectConversation(s)
    \/ \E s \in Slots : RemoteGetFiles(s)
    \/ \E s \in Slots : RemoteUploadFile(s)
    \/ \E s \in Slots : RemoteAddFile(s)
    \/ \E s \in Slots : RemoteRejectFile(s)
    \/ \E s \in Slots : RemoteGetItems(s)
    \/ \E s \in Slots : RemoteReject(s)
    \/ \E s \in Slots : RemoteSendEmail(s)
    \/ \E s \in Slots : RemoteRejectEmail(s)

SpecIdle == InitFile /\ [][NextIdle]_vars

(***************************************************************************)
(* The compose dialog: drafts are saved and emails are sent                *)
(***************************************************************************)
\* currentDraftId of the dialog: null, or the id of a saved draft.
DraftChoices == {<<>>} \cup {drafts[i].id : i \in 1..Len(drafts)}

NextEmail ==
    \/ \E form \in {GoodForm, ScheduledForm} : saveDraft(form)
    \/ \E s \in Slots, form \in Forms, id \in DraftChoices : handleSendEmail(s, form, id)
    \/ \E s \in Slots : sendEmailResume(s)
    \/ \E s \in Slots : RemoteSendEmail(s)
    \/ \E s \in Slots : RemoteRejectEmail(s)

SpecEmail == InitFile /\ [][NextEmail]_vars

(***************************************************************************)
(* The chat page and the sidebar create conversations                      *)
(***************************************************************************)
\* The (toolType, title) arguments of createConversation.
CreateInputs == {<<"chat", "New Chat">>, <<"chat", "">>}

NextCreate ==
    \/ \E s \in Slots, c \in CreateInputs : createConversation(s, c[1], c[2])
    \/ \E s \in Slots : createConversationResume(s)
    \/ \E s \in Slots : loadConversations(s)
    \/ \E s \in Slots : loadConversationsResume(s)
    \/ \E s \in Slots : RemoteAddConversation(s)
    \/ \E s \in Slots : RemoteGetConversations(s)
    \/ \E s \in Slots : RemoteRejectConversation(s)

SpecCreate == InitConv /\ [][NextCreate]_vars

(***************************************************************************)
(* The compose dialog: valid emails are sent, from a saved draft or not    *)
(***************************************************************************)
NextSend ==
    \/ saveDraft(ScheduledForm)
    \/ \E s \in Slots, id \in DraftChoices : handleSendEmail(s, ScheduledForm, id)
    \/ \E s \in Slots : handleSendEmail(s, GoodForm, <<>>)
    \/ \E s \in Slots : sendEmailResume(s)
    \/ \E s \in Slots : RemoteSendEmail(s)
    \/ \E s \in Slots : RemoteRejectEmail(s)

SpecSend == InitFile /\ [][NextSend]_vars

(***************************************************************************)
(* The auth store under concurrent calls                                   *)
(***************************************************************************)
NextAuth ==
    \/ \E s \in Slots : sendOTP(s, "a@x.co")
    \/ \E s \in Slots : sendOTPResume(s)
    \/ \E s \in Slots : verifyOTP(s, "a@x.co")
    \/ \E s \in Slots : verifyOTPResume(s)
    \/ \E s \in Slots : logout(s)
    \/ \E s \in Slots : logoutResume(s)
    \/ authClearError
    \/ \E s \in Slots : RemoteAuth(s)
    \/ \E s \in Slots : RemoteRejectAuth(s)

SpecAuth == InitFile /\ [][NextAuth]_vars

(***************************************************************************)
(* Properties of the conversation store and the file store                 *)
(***************************************************************************)
\* C1: when the remote update of an addMessage or updateConversation call
\* fails, conversations and currentConversation are, once the call has
\* settled, what they were immediately before the call.  (Stated for the
\* calls no other call overlapped, where nothing else touches the cache.)
C1_FailedUpdateRollsBack ==
    [][\A s \in Slots :
          (/\ convCalls[s].op \in {"addMessage", "updateConversation"}
           /\ convCalls[s].pc = "err"
           /\ convCalls[s].ov = {}
           /\ convCalls'[s].op = "idle")
          => /\ conversations' = convCalls[s].before.conversations
             /\ currentConversation' = convCalls[s].before.currentConversation]_vars

\* The steps of the deleteConversation call of slot s up to and including a
\* failure: it is issued, it waits, the remote delete is handled or rejected,
\* the call resumes in its catch block.
DeleteStepBeforeSuccess(s) ==
    \/ convCalls[s].op = "idle" /\ convCalls'[s].op = "deleteConversation"
    \/ /\ convCalls[s].op = "deleteConversation"
       /\ convCalls[s].pc = "await"
       /\ convCalls'[s].pc \in {"ok", "err"}
    \/ /\ convCalls[s].op = "deleteConversation"
       /\ convCalls[s].pc = "err"
       /\ convCalls'[s].op = "idle"

\* C4: deleteConversation changes neither conversations nor
\* currentConversation before its remote delete has succeeded; a call whose
\* remote delete fails leaves both as they are in every one of its steps.
C4_DeleteOnlyAfterRemoteSuccess ==
    [][\A s \in Slots :
          DeleteStepBeforeSuccess(s)
          => UNCHANGED <<conversations, currentConversation>>]_vars

\* A deleteConversation of the selected conversation has failed and settled;
\* the conversation is still listed and still selected.
C4_Witness ==
    \E s \in Slots :
       /\ convHist[s].op = "deleteConversation"
       /\ convHist[s].res = "fail"
       /\ convCalls[s].op = "idle"
       /\ convHist[s].target \in ConvIdsOf(conversations)
       /\ currentConversation.id = convHist[s].target

\* C5: once deleteFile(E) has succeeded the remote row E still exists, with
\* is_deleted = 'deleted', and every loadFiles issued after that leaves a
\* files list without E.
C5_SoftDeleteInvisible ==
    /\ [](\A id \in fileDeleted :
             \E row \in fileTable : row._id = id /\ row.is_deleted = "deleted")
    /\ [][\A s \in Slots :
             (/\ fileCalls[s].op = "loadFiles"
              /\ fileCalls[s].pc = "ok"
              /\ fileCalls'[s].op = "idle")
             => \A id \in fileCalls[s].after : id \notin FileIdsOf(files')]_vars

\* A loadFiles issued after a successful deleteFile has succeeded and settled:
\* the deleted row is in the table and not in files.
C5_Witness ==
    \E s \in Slots :
       /\ fileHist[s].op = "loadFiles"
       /\ fileHist[s].res = "ok"
       /\ fileHist[s].after # {}
       /\ fileCalls[s].op = "idle"
       /\ files # <<>>
       /\ \A id \in fileHist[s].after :
             /\ id \notin FileIdsOf(files)
             /\ \E row \in fileTable : row._id = id /\ row.is_deleted = "deleted"

\* C6 for the file store: a file whose deleteFile has succeeded is not in files.
DeletedFilesStayOut == \A id \in fileDeleted : id \notin FileIdsOf(files)

\* C6 for the conversation store: a conversation whose deleteConversation has
\* succeeded is not in conversations.
DeletedConversationsStayOut == \A id \in convDeleted : id \notin ConvIdsOf(conversations)

\* C6: a deleted entity never resurfaces in the local cache, whatever loads
\* are in flight.
C6_DeletedNeverResurfaces == DeletedFilesStayOut /\ DeletedConversationsStayOut

\* C7: every update or delete request of the two stores carries the row's id
\* and the row's owner token, which is not empty.
C7_RequestsCarryOwner ==
    \A r \in convSent \cup fileSent : r._uid # "" /\ r._uid = OwnerUid

(***************************************************************************)
(* Further properties of syncPreferences                                   *)
(***************************************************************************)
\* C11: two syncPreferences in a row over the same, unchanged rows give the
\* same preferences: the second successful sync, which nothing overlapped and
\* which follows a successful sync nothing overlapped, changes no field.
C11_SyncTwiceSameResult ==
    [][\A s \in Slots :
          (/\ calls[s].op = "syncPreferences"
           /\ calls[s].ov = {}
           /\ calls'[s].op = "idle"
           /\ hist'[s].res = "ok"
           /\ hist[s].op = "syncPreferences"
           /\ hist[s].res = "ok"
           /\ hist[s].ov = {}
           /\ hist[s].id + 1 = calls[s].id)
          => Prefs' = Prefs]_vars

\* C12: syncPreferences never alters the compiled-in defaults.
C12_DefaultsNeverAltered == defaultPreferences = DefaultPreferences

\* The rows of the scenario: {theme, mode, "light"} and {ai, temperature, 0.9}.
ScenarioRows ==
    {r \in SeedRows :
        \/ r.category = "theme" /\ r.key = "mode" /\ ParsedValue(r.value) = "light"
        \/ r.category = "ai" /\ r.key = "temperature" /\ ParsedValue(r.value) = "0.9"}

SyncSucceeded == \E s \in Slots : hist[s].op = "syncPreferences" /\ hist[s].res = "ok"

\* C13: reconciling {theme, mode, "light"} and {ai, temperature, 0.9} against
\* the defaults yields theme.mode = "light", ai.temperature = 0.9 and every
\* other field at its default.
C13_ScenarioReconciled ==
    (prefTable = ScenarioRows /\ SyncSucceeded /\ Active = {})
    => Prefs = [DefaultPreferences EXCEPT !["theme"]["mode"] = "light",
                                          !["ai"]["temperature"] = "0.9"]

\* A sync over exactly the two rows of the scenario has succeeded.
C13_Witness ==
    /\ Cardinality(ScenarioRows) = 2
    /\ prefTable = ScenarioRows
    /\ SyncSucceeded
    /\ Active = {}
    /\ Prefs["theme"]["mode"] = "light"
    /\ Prefs["theme"]["accentColor"] = "#8b5cf6"

(***************************************************************************)
(* Failures of loads and of file mutations; optimistic application         *)
(***************************************************************************)
\* C16: when the remote read of loadConversations fails, conversations keeps
\* its contents, error becomes non-null and isLoading returns to false.
C16_FailedLoadKeepsConversations ==
    [][\A s \in Slots :
          (/\ convCalls[s].op = "loadConversations"
           /\ convCalls[s].pc = "err"
           /\ convCalls'[s].op = "idle")
          => /\ conversations' = conversations
             /\ convError' # ""
             /\ convIsLoading' = FALSE]_vars

\* A loadConversations has failed while the list held conversations: they are
\* still listed, the error is set, the store is not loading.
C16_Witness ==
    \E s \in Slots :
       /\ convHist[s].op = "loadConversations"
       /\ convHist[s].res = "fail"
       /\ Active = {} /\ \A u \in Slots : convCalls[u].op = "idle"
       /\ Len(conversations) = Cardinality(SeedConversations)
       /\ convError # ""
       /\ ~convIsLoading

\* C17: a failed loadFiles is surfaced to its caller.  The file store holds no
\* error flag, so the promise of the failed call is rejected.
C17_FailedLoadSurfaced ==
    \A s \in Slots :
       (fileHist[s].op = "loadFiles" /\ fileHist[s].res = "fail")
       => fileHist[s].promise = "rejected"

FileMutations == {"deleteFile", "updateFileDescription"}

\* C18: a deleteFile or updateFileDescription whose remote update fails leaves
\* files as it was: neither the step that issues the call nor the step that
\* handles the failure changes files, and the failure is rethrown.
C18_FailedFileMutation ==
    [][\A s \in Slots :
          /\ (fileCalls[s].op = "idle" /\ fileCalls'[s].op \in FileMutations)
             => files' = files
          /\ (/\ fileCalls[s].op \in FileMutations
              /\ fileCalls[s].pc = "err"
              /\ fileCalls'[s].op = "idle")
             => /\ files' = files
                /\ fileHist'[s].promise = "rejected"]_vars

\* An updateFileDescription has failed and settled: the file is still listed
\* with its old description and the caller got a rejection.
C18_Witness ==
    \E s \in Slots :
       /\ fileHist[s].op = "updateFileDescription"
       /\ fileHist[s].res = "fail"
       /\ fileHist[s].promise = "rejected"
       /\ fileCalls[s].op = "idle"
       /\ FindFile(files, fileHist[s].target) # NoFile
       /\ FindFile(files, fileHist[s].target).description = ""

\* C20 for addMessage: while the update is pending the message is in the listed
\* conversation (selectConversation may have moved currentConversation).
PendingMessageShown(s) ==
    (convCalls[s].op = "addMessage" /\ convCalls[s].pc = "await" /\ convCalls[s].ov = {})
    => \/ FindConversation(conversations, convCalls[s].req._id) = NoConversation
       \/ StringifyMessages(FindConversation(conversations, convCalls[s].req._id).messages)
             = convCalls[s].req.messages

\* C20 for updateConversation: while the update is pending the title is patched.
PendingTitleShown(s) ==
    (convCalls[s].op = "updateConversation" /\ convCalls[s].pc = "await"
     /\ convCalls[s].ov = {})
    => FindConversation(conversations, convCalls[s].req._id).title = convCalls[s].req.title

\* C20 for updatePreference: while the add is pending the field has its new value.
PendingPreferenceShown(s) ==
    (calls[s].op = "updatePreference" /\ calls[s].pc = "await" /\ calls[s].ov = {})
    => Prefs[calls[s].cat][calls[s].entries[1][1]] = calls[s].entries[1][2]

\* C20 for updateFileDescription: while the update is pending the file shows
\* the new description.
PendingDescriptionShown(s) ==
    (fileCalls[s].op = "updateFileDescription" /\ fileCalls[s].pc = "await"
     /\ fileCalls[s].ov = {})
    => FindFile(files, fileCalls[s].req._id).description = fileCalls[s].req.description

\* C20: addMessage, updateConversation, updatePreference and
\* updateFileDescription show the new value in the local cache while their
\* remote call is still pending.
C20_OptimisticBeforeRemote ==
    \A s \in Slots :
       /\ PendingMessageShown(s)
       /\ PendingTitleShown(s)
       /\ PendingPreferenceShown(s)
       /\ PendingDescriptionShown(s)

(***************************************************************************)
(* Properties of resetCategory and of failure reporting in the settings    *)
(* store                                                                   *)
(***************************************************************************)
\* C14: once resetCategory(c) is called the local preferences[c] are the
\* compiled-in defaults of c, and stay so when a remote call of the reset
\* fails.  (Stated for resets nothing overlapped, in sessions whose
\* defaultPreferences object still holds the compiled-in values.)
C14_LocalResetSurvivesFailure ==
    [][\A s \in Slots :
          (/\ calls[s].op = "resetCategory"
           /\ calls[s].pc = "err"
           /\ calls[s].ov = {}
           /\ calls'[s].op = "idle"
           /\ defaultPreferences = DefaultPreferences)
          => Prefs'[calls[s].cat] = DefaultPreferences[calls[s].cat]]_vars

\* The rows of category c in the remote table.
CategoryRows(c) == {r \in prefTable : r.category = c}

\* Exactly one row per field of c, each with the compiled-in default, and no
\* other row of c.
OneDefaultRowPerField(c) ==
    /\ \A k \in Fields(c) : Cardinality({r \in CategoryRows(c) : r.key = k}) = 1
    /\ \A r \in CategoryRows(c) :
          /\ r.key \in Fields(c)
          /\ ParsedValue(r.value) = DefaultPreferences[c][r.key]

\* C15: a resetCategory(c) whose remote calls all succeeded, which nothing
\* overlapped and after which no call was issued, leaves exactly one row per
\* field of c with the compiled-in default and no other row of c.
C15_ResetLeavesDefaultRows ==
    \A s \in Slots :
       (/\ hist[s].op = "resetCategory"
        /\ hist[s].res = "ok"
        /\ hist[s].ov = {}
        /\ hist[s].id = ncalls
        /\ Active = {})
       => OneDefaultRowPerField(hist[s].cat)

SettingsMutations ==
    {"updatePreference", "updateCategory", "resetCategory", "resetAllPreferences"}

\* C19: a settings mutation whose remote call failed reports the failure to
\* its caller.  The settings store holds no error flag, so the promise of the
\* failed call is rejected.
C19_SettingsFailureReported ==
    \A s \in Slots :
       (hist[s].op \in SettingsMutations /\ hist[s].res = "fail")
       => hist[s].promise = "rejected"


(***************************************************************************)
(* Properties of the message list of a conversation                        *)
(***************************************************************************)
IsPrefix(a, b) == Len(a) <= Len(b) /\ SubSeq(b, 1, Len(a)) = a

\* C21: the messages of a conversation of the local cache only grow by
\* appending: across every step, for a conversation the list holds before and
\* after, and for the selected conversation when it stays the same one, the
\* messages before the step are a prefix of the messages after it.
C21_MessagesOnlyAppended ==
    [][/\ \A id \in ConvIds :
             (/\ FindConversation(conversations, id) # NoConversation
              /\ FindConversation(conversations', id) # NoConversation)
             => IsPrefix(FindConversation(conversations, id).messages,
                         FindConversation(conversations', id).messages)
       /\ (/\ currentConversation # NoConversation
           /\ currentConversation' # NoConversation
           /\ currentConversation'.id = currentConversation.id)
          => IsPrefix(currentConversation.messages, currentConversation'.messages)]_vars

Roles(msgs) == [i \in 1..Len(msgs) |-> msgs[i].role]

\* The selected conversation and its entry of the list hold the same messages,
\* with the given roles in the given order.
ShownWithRoles(id, roles) ==
    /\ currentConversation.id = id
    /\ Roles(currentConversation.messages) = roles
    /\ FindConversation(conversations, id) # NoConversation
    /\ FindConversation(conversations, id).messages = currentConversation.messages

\* C22: with an empty conversation C of the list selected, addMessage(user)
\* leaves C with that one message, and a following addMessage(assistant)
\* leaves C with two messages, the user message first and the assistant
\* message second, in currentConversation and in conversations alike; when a
\* deleteConversation(C) succeeds, C is no longer in conversations.
C22_TwoMessagesThenDelete ==
    [][/\ \A s \in Slots, id \in ConvIds :
             (/\ ShownWithRoles(id, <<>>)
              /\ addMessage(s, "user"))
             => ShownWithRoles(id, <<"user">>)'
       /\ \A s \in Slots, id \in ConvIds :
             (/\ ShownWithRoles(id, <<"user">>)
              /\ addMessage(s, "assistant"))
             => /\ ShownWithRoles(id, <<"user", "assistant">>)'
                /\ currentConversation'.messages[1] = currentConversation.messages[1]
       /\ \A s \in Slots :
             (/\ convCalls[s].op = "deleteConversation"
              /\ convCalls[s].pc = "ok"
              /\ deleteConversationResume(s))
             => convCalls[s].req._id \notin ConvIdsOf(conversations')]_vars

\* Both messages have been added to c1 and its remote delete has succeeded:
\* the call is about to remove c1 from the list.
C22_Witness ==
    /\ ShownWithRoles("c1", <<"user", "assistant">>)
    /\ \E s \in Slots : /\ convCalls[s].op = "deleteConversation"
                         /\ convCalls[s].pc = "ok"
                         /\ convCalls[s].req._id = "c1"


(***************************************************************************)
(* Properties of the export and the import of the preferences              *)
(***************************************************************************)
\* C23: importPreferences of a payload without the version member, without
\* the preferences member, or that does not parse, is rejected before any
\* mutation: the promise rejects, the local preferences are what they were,
\* no call is left in flight and the remote table is untouched.
C23_InvalidImportRejected ==
    [][\A s \in Slots, data \in InvalidPayloads :
          importPreferences(s, data)
          => /\ hist'[s].promise = "rejected"
             /\ UNCHANGED <<preferences, defaultPreferences, calls, prefTable>>]_vars

\* An invalid import has been rejected in a session whose preferences are no
\* longer the defaults.
C23_Witness ==
    /\ preferences # RefDefaults
    /\ \E s \in Slots : /\ hist[s].op = "importPreferences"
                         /\ hist[s].res = "invalid"
                         /\ hist[s].promise = "rejected"

\* C24: exportPreferences gives an object with exactly the members
\* preferences, exportedAt and version "1.0"; and when the import of the
\* export of a preference set P0 returns, every remote call of it having
\* succeeded and no other call having overlapped it, the local preferences
\* are P0.
C24_ImportRestoresExport ==
    [][/\ exportPreferences.members = {"preferences", "exportedAt", "version"}
       /\ exportPreferences.version = "1.0"
       /\ \A s \in Slots :
             (/\ calls[s].op = "importPreferences"
              /\ calls[s].pc = "ok"
              /\ ~calls[s].failed
              /\ calls[s].ov = {}
              /\ calls'[s].op = "idle")
             => \A P0 \in {calls[s].before, DefaultPreferences} :
                   calls[s].data = ExportOf(P0, calls[s].data.exportedAt)
                   => Prefs' = P0]_vars

\* C25: whenever no call is in flight, preferences has exactly the six
\* categories, each with exactly its declared fields.
C25_FixedShape ==
    Active = {}
    => /\ DOMAIN Prefs = Categories
       /\ \A c \in Categories : DOMAIN Prefs[c] = Fields(c)


(***************************************************************************)
(* Properties of the derived views of the file store                       *)
(***************************************************************************)
FileCategories == {"image", "document", "audio", "video", "other"}

CachedFiles == {files[i] : i \in 1..Len(files)}

\* The files of fs that are in S, in the order of fs.
RECURSIVE Restrict(_, _)
Restrict(fs, S) ==
    IF fs = <<>> THEN <<>>
    ELSE IF fs[1] \in S THEN <<fs[1]>> \o Restrict(Tail(fs), S)
    ELSE Restrict(Tail(fs), S)

\* q occurs in str, letter case apart.
OccursIn(q, str) ==
    LET n == Chars(q)
        h == Chars(str)
    IN \E i \in 0..(Len(h) - Len(n)) :
          \A k \in 1..Len(n) : Lower(h[i + k]) = Lower(n[k])

\* q is a case-insensitive substring of the filename or of the description.
TextMatches(f, q) == OccursIn(q, f.filename) \/ OccursIn(q, f.description)

\* q is made of white space only.
Blank(q) == \A i \in 1..Len(Chars(q)) : Chars(q)[i] = " "

\* C26: with selectedCategory 'all' and an empty searchQuery getFilteredFiles
\* is files itself; 'all' alone drops no file for its category, and the
\* empty query alone leaves exactly the files of the selected category.
C26_AllAndEmptyIsIdentity ==
    /\ (selectedCategory = "all" /\ searchQuery = "") => getFilteredFiles = files
    /\ selectedCategory = "all"
       => \A f \in CachedFiles :
             TextMatches(f, searchQuery) => \E i \in 1..Len(getFilteredFiles) :
                                               getFilteredFiles[i] = f
    /\ (searchQuery = "" /\ selectedCategory \in FileCategories)
       => getFilteredFiles = Restrict(files, {f \in CachedFiles :
                                                f.category = selectedCategory})

\* Files of two categories are cached, one of them described, and nothing is
\* selected or searched.
C26_Witness ==
    /\ selectedCategory = "all"
    /\ searchQuery = ""
    /\ Len(files) >= 2
    /\ \E i, j \in 1..Len(files) : /\ files[i].category # files[j].category
                                    /\ files[i].description = "notes"

\* C27 as stated: for a category C and a query S, getFilteredFiles is exactly
\* the files whose category is C and of which S is a case-insensitive
\* substring of the filename or the description, in the order of files.
C27_BothPredicates ==
    selectedCategory \in FileCategories
    => getFilteredFiles =
         Restrict(files, {f \in CachedFiles : /\ f.category = selectedCategory
                                               /\ TextMatches(f, searchQuery)})

\* C27, amended: a query made of white space only restricts nothing; for
\* every category C and query S, getFilteredFiles is exactly the files whose
\* category is C and, unless S is blank, of which S is a case-insensitive
\* substring of the filename or the description, in the order of files; it
\* is the result for C alone restricted to the result for S alone.
C27_BothPredicatesUnlessBlank ==
    selectedCategory \in FileCategories
    => /\ getFilteredFiles =
            Restrict(files, {f \in CachedFiles :
                               /\ f.category = selectedCategory
                               /\ Blank(searchQuery) \/ TextMatches(f, searchQuery)})
       /\ getFilteredFiles =
            Restrict(FilteredFiles(files, selectedCategory, ""),
                     {f \in CachedFiles :
                        \E i \in 1..Len(FilteredFiles(files, "all", searchQuery)) :
                           FilteredFiles(files, "all", searchQuery)[i] = f})

\* A category and a query are both set, over files of two categories: the
\* query keeps one file of the category and drops another.
C27_Witness ==
    /\ selectedCategory = "image"
    /\ searchQuery = "note"
    /\ \E f \in CachedFiles : f.category = "document"
    /\ Len(FilteredFiles(files, "image", "")) = 2
    /\ Len(getFilteredFiles) = 1


(***************************************************************************)
(* Properties of the aggregates of the file store                          *)
(***************************************************************************)
\* C28: in every state getCategoryCounts holds a number for each of the keys
\* all, image, document, audio, video, other; all is files.length and is
\* the sum of the five per-category counts.
C28_CountsAddUp ==
    LET counts == getCategoryCounts
    IN /\ \A k \in {"all"} \cup FileCategories : k \in DOMAIN counts /\ counts[k] \in Nat
       /\ counts.all = Len(files)
       /\ counts.all = counts.image + counts.document + counts.audio + counts.video
                         + counts.other

\* C29: in every state getTotalSize is the sum, over the five categories, of
\* the sizes of the cached files of the category.
C29_TotalIsSumOverCategories ==
    getTotalSize = TotalSize(FilterByCategory(files, "image"))
                   + TotalSize(FilterByCategory(files, "document"))
                   + TotalSize(FilterByCategory(files, "audio"))
                   + TotalSize(FilterByCategory(files, "video"))
                   + TotalSize(FilterByCategory(files, "other"))

\* C30: when an uploadFile of report.pdf (application/pdf, no category
\* argument) returns successfully, getCategoryCounts has document and all one
\* greater than before the upload and every other count as before.  (Stated
\* for the uploads no other call overlapped and that found the cache equal to
\* the active rows of the table.)
C30_UploadCountsOneDocument ==
    [][\A s \in Slots :
          (/\ fileCalls[s].op = "uploadFile"
           /\ fileCalls[s].file = ReportPdf
           /\ fileCalls[s].category = ""
           /\ fileCalls[s].ov = {}
           /\ fileCalls[s].before \in
                 ByUploadDateDesc(QueryActive(fileTable \ {fileCalls[s].row}))
           /\ fileCalls'[s].op = "idle"
           /\ fileHist'[s].promise = "resolved")
          => LET before == CategoryCounts(fileCalls[s].before)
                 after == CategoryCounts(files')
             IN /\ after.document = before.document + 1
                /\ after.all = before.all + 1
                /\ \A k \in {"image", "audio", "video", "other"} :
                      after[k] = before[k]]_vars

(***************************************************************************)
(* Properties of the multi-file upload                                     *)
(***************************************************************************)
\* C31: the files of a multi-file upload are independent: when the handler
\* has finished, every file of the batch has been passed to uploadFile,
\* whether or not the upload of an earlier file failed.
C31_LaterFilesStillUploaded ==
    batch.pc = "done" => batch.next = Len(batch.files)

(***************************************************************************)
(* Properties of the loading flags                                         *)
(***************************************************************************)
\* The calls in flight of each store.
ConvActive == {s \in Slots : convCalls[s].op # "idle"}

EmailActive == {s \in Slots : emailCalls[s].op # "idle"}

\* Some call of the store settles in this step.
SettlesIn(cs) == \E s \in Slots : cs[s].op # "idle" /\ cs'[s].op = "idle"

\* C32: every store returns to idle: the step in which a loadConversations,
\* loadFiles, uploadFile, syncPreferences or sendEmail call settles, after
\* the success or the failure of its remote call, leaves the isLoading of
\* its store false, and a store none of whose calls is in flight is not
\* loading.
C32_StoresReturnToIdle ==
    /\ [](/\ ConvActive = {} => ~convIsLoading
          /\ FileActive = {} => ~fileIsLoading
          /\ Active = {} => ~settingsIsLoading
          /\ EmailActive = {} => ~emailIsLoading)
    /\ [][/\ SettlesIn(convCalls) => ~convIsLoading'
          /\ SettlesIn(fileCalls) => ~fileIsLoading'
          /\ SettlesIn(calls) => ~settingsIsLoading'
          /\ SettlesIn(emailCalls) => ~emailIsLoading']_vars

\* A send has failed and an upload has succeeded, and every call has settled.
C32_Witness ==
    /\ \E s \in Slots : emailHist[s].res = "fail"
    /\ \E s \in Slots : fileHist[s].op = "uploadFile" /\ fileHist[s].res = "ok"
    /\ ConvActive = {} /\ FileActive = {} /\ Active = {} /\ EmailActive = {}
    /\ ~emailIsLoading /\ ~fileIsLoading

\* C37: the isLoading of the conversation store is true while a
\* loadConversations call is pending, and the isLoading of the file store is
\* true while a loadFiles or uploadFile call is pending, also when two such
\* calls overlap.
C37_LoadingWhilePending ==
    /\ (\E s \in Slots : convCalls[s].op = "loadConversations") => convIsLoading
    /\ (\E s \in Slots : fileCalls[s].op \in {"loadFiles", "uploadFile"}) => fileIsLoading

(***************************************************************************)
(* Properties of the email store                                           *)
(***************************************************************************)
\* Some address of the list is not a valid address.
HasInvalid(list) ==
    LET parsed == parseEmailList(Chars(list))
    IN \E i \in 1..Len(parsed) : ~validateEmail(parsed[i])

\* C33: an email with an invalid address among its to, cc or bcc recipients
\* is rejected before any mutation: handleSendEmail issues no remote send
\* and leaves drafts and sentEmails unchanged.
C33_InvalidAddressRejected ==
    [][\A s \in Slots, form \in Forms, id \in DraftChoices :
          (/\ HasInvalid(form.to) \/ HasInvalid(form.cc) \/ HasInvalid(form.bcc)
           /\ handleSendEmail(s, form, id))
          => /\ UNCHANGED <<drafts, sentEmails, emailOut>>
             /\ emailCalls'[s].op = "idle"]_vars

(***************************************************************************)
(* Properties of createConversation                                        *)
(***************************************************************************)
\* C34: a createConversation whose remote add and reload succeeded returns
\* the id of the conversation it has created, the id the remote service gave
\* to its row; so it is not empty, and two calls, overlapping or reading the
\* same clock value, return different ids.
C34_ReturnsOwnNewId ==
    \A s \in Slots :
       (convHist[s].op = "createConversation" /\ convHist[s].res = "ok")
       => convHist[s].ret = NewConvIds[convHist[s].id]

(***************************************************************************)
(* Properties of the value uploadFile returns                              *)
(***************************************************************************)
\* C35: an uploadFile that resolves returns the cached file whose filename
\* and file_url are those of the file just uploaded, never another file's
\* record and never undefined.
C35_ReturnsUploadedFile ==
    \A s \in Slots :
       (fileHist[s].op = "uploadFile" /\ fileHist[s].promise = "resolved")
       => /\ fileHist[s].ret # NoFile
          /\ fileHist[s].ret.filename = fileHist[s].name
          /\ fileHist[s].ret.file_url = fileHist[s].link

(***************************************************************************)
(* Properties of the selected conversation                                 *)
(***************************************************************************)
\* C36: whenever a conversation is selected and the list holds an entry with
\* its id, the selected conversation and that entry are equal.
C36_CurrentMatchesList ==
    currentConversation # NoConversation
    => \A i \in 1..Len(conversations) :
          conversations[i].id = currentConversation.id
          => conversations[i] = currentConversation

\* A draft of the list has this id.
HasDraft(ds, id) == \E i \in 1..Len(ds) : ds[i].id = id

\* C38: the step in which a sendEmail call settles prepends exactly one
\* entry to sentEmails, of status 'failed' iff the remote send was rejected,
\* else 'scheduled' if the draft has a scheduledAt and 'sent' if not; after a
\* successful send no draft with the id of the sent draft is left and the
\* other drafts are kept; after a failed send drafts is unchanged and the
\* call returns null.
C38_OneEntryPerSend ==
    [][\A s \in Slots :
          (emailCalls[s].op = "sendEmail" /\ emailCalls'[s].op = "idle")
          => LET draft == emailCalls[s].draft
                 rejected == emailCalls[s].pc = "err"
             IN /\ sentEmails' # <<>>
                /\ Tail(sentEmails') = sentEmails
                /\ sentEmails'[1].to = draft.to
                /\ (sentEmails'[1].status = "failed") <=> rejected
                /\ ~rejected => sentEmails'[1].status = IF draft.scheduledAt # ""
                                                          THEN "scheduled" ELSE "sent"
                /\ ~rejected => /\ ~HasDraft(drafts', draft.id)
                                /\ \A i \in 1..Len(drafts) :
                                      drafts[i].id # draft.id
                                      => \E j \in 1..Len(drafts') : drafts'[j] = drafts[i]
                                /\ Len(drafts') <= Len(drafts)
                                /\ emailHist'[s].ret # NullId
                /\ rejected => /\ drafts' = drafts
                               /\ emailHist'[s].ret = NullId]_vars

\* A scheduled email has been sent from a saved draft, which is gone, after
\* a send of the same draft had failed and had left it in place.
C38_Witness ==
    /\ \E i \in 1..Len(sentEmails) : sentEmails[i].status = "failed"
    /\ \E i \in 1..Len(sentEmails) : sentEmails[i].status = "scheduled"
    /\ \E s \in Slots : /\ emailHist[s].res = "ok"
                        /\ HasDraft(emailHist[s].draftsBefore, emailHist[s].draft.id)
                        /\ ~HasDraft(drafts, emailHist[s].draft.id)

(***************************************************************************)
(* Properties of the auth store                                            *)
(***************************************************************************)
\* C39: the step in which logout settles, after the success or the failure
\* of the remote logout, leaves user null, isAuthenticated false, error null
\* and isLoading false; and in every state isAuthenticated is true exactly
\* when user is not null.
C39_LogoutClearsSession ==
    /\ [](isAuthenticated <=> user # NoUser)
    /\ [][\A s \in Slots :
             (authCalls[s].op = "logout" /\ authCalls'[s].op = "idle")
             => /\ user' = NoUser
                /\ ~isAuthenticated'
                /\ authError' = ""
                /\ ~authIsLoading']_vars

\* A verifyOTP has signed the user in, and a logout whose remote call failed
\* has settled after it.
C39_Witness ==
    /\ \E s \in Slots : authHist[s].op = "verifyOTP" /\ authHist[s].res = "ok"
    /\ \E s \in Slots : authHist[s].op = "logout" /\ authHist[s].res = "fail"
    /\ user = NoUser
    /\ ~isAuthenticated

====
